---------------------------- MODULE Spec2Model ----------------------------
(***************************************************************************)
(* A model of the OpenMOC Solver (src/src/Solver.cpp): the outer-iteration *)
(* engine that drives transport sweeps to convergence.                     *)
(*                                                                         *)
(* The Solver object is the record `solver`, one field per data member     *)
(* (the leading underscore of the C++ names is dropped).  Every method is  *)
(* an operator from a Solver record to the Solver record it leaves behind  *)
(* (and the error it raised, if any); the actions apply the methods.  A    *)
(* solve call is split at its loop: one action for the prologue, one per   *)
(* iteration, one for the exit after the loop.                             *)
(*                                                                         *)
(* Floating point quantities are integers in a fixed unit: the residual    *)
(* and the threshold in units of 1E-5, k_eff and the fluxes in units of    *)
(* 1.0, optical lengths in units of one optical length.                    *)
(***************************************************************************)
EXTENDS Integers, Sequences, FiniteSets, TLC

VARIABLES solver, env, call, hist

vars == <<solver, env, call, hist>>

-----------------------------------------------------------------------------
(* Bounds of the model.                                                    *)

MaxIters == 3
MaxRes == 2
MaxKeff == 2
MaxFlux == 1
MaxTau == 3
MaxNorm == 2
NumWorkers == 2

(* Program constants.                                                      *)

DefaultNumPolar == 3
DefaultThresh == 1
DefaultMaxOpticalLength == 10

NULL == "NULL"

-----------------------------------------------------------------------------
(* The collaborators the engine borrows: track generators and the          *)
(* geometries they were built over.  They are read through the getters the *)
(* Solver calls.                                                           *)

TrackGenerators == {"tgA", "tgB", "tgC", "tgEmpty", "tgNoFSRs"}

Geometries ==
  [ gA |-> [numFSRs |-> 2, numEnergyGroups |-> 1, numMaterials |-> 2,
            cmfd |-> NULL, fsrMaterial |-> <<"fuel", "water">>],
    gB |-> [numFSRs |-> 1, numEnergyGroups |-> 2, numMaterials |-> 1,
            cmfd |-> "cmfd", fsrMaterial |-> <<"fuel">>],
    gC |-> [numFSRs |-> 1, numEnergyGroups |-> 1, numMaterials |-> 1,
            cmfd |-> "cmfdOff", fsrMaterial |-> <<"fuel">>],
    gZ |-> [numFSRs |-> 0, numEnergyGroups |-> 1, numMaterials |-> 0,
            cmfd |-> NULL, fsrMaterial |-> <<>>] ]

(* Geometry::findFSRMaterial and Material::isFissionable.                   *)
findFSRMaterial(geometry, r) == Geometries[geometry].fsrMaterial[r + 1]

isFissionable(material) == material = "fuel"

(* The cross sections of the materials, by group: Material::getNuSigmaF,   *)
(* Material::getChi and Material::getSigmaSByGroupInline(origin,           *)
(* destination), groups counted from 0.  The scattering matrices are not   *)
(* symmetric.                                                              *)
MaterialData ==
  [ fuel  |-> [nuSigmaF |-> <<2, 3>>, chi |-> <<1, 2>>,
               sigmaS |-> <<<<1, 2>>, <<0, 1>>>>],
    water |-> [nuSigmaF |-> <<0, 0>>, chi |-> <<0, 0>>,
               sigmaS |-> <<<<2, 1>>, <<0, 3>>>>] ]

getNuSigmaF(material) == [e \in 0 .. 1 |-> MaterialData[material].nuSigmaF[e + 1]]

getChi(material) == [e \in 0 .. 1 |-> MaterialData[material].chi[e + 1]]

getSigmaSByGroupInline(material, origin, destination) ==
  MaterialData[material].sigmaS[origin + 1][destination + 1]

TrackGeneratorData ==
  [ tgA      |-> [containsTracks |-> TRUE,  numAzim |-> 4, numTracks |-> 2,
                  geometry |-> "gA"],
    tgB      |-> [containsTracks |-> TRUE,  numAzim |-> 2, numTracks |-> 1,
                  geometry |-> "gB"],
    tgC      |-> [containsTracks |-> TRUE,  numAzim |-> 2, numTracks |-> 1,
                  geometry |-> "gC"],
    tgEmpty  |-> [containsTracks |-> FALSE, numAzim |-> 2, numTracks |-> 0,
                  geometry |-> "gA"],
    tgNoFSRs |-> [containsTracks |-> TRUE,  numAzim |-> 2, numTracks |-> 1,
                  geometry |-> "gZ"] ]

(* Material::getId; "steel" is a material no region is bound to.           *)
MaterialIds == [fuel |-> 1, water |-> 2, steel |-> 3]

Materials == DOMAIN MaterialIds

(* The cells of the geometries: a FILL cell holds the cells of the         *)
(* universe it is filled with, a MATERIAL cell holds none.  "cRoot" holds  *)
(* a nested FILL cell; no region lies in "cVoid"; "cHollow" is a FILL cell *)
(* without cells.                                                          *)
CellData ==
  [ cRoot   |-> [type |-> "FILL",     id |-> 1, cells |-> <<"cPin", "cWater">>],
    cPin    |-> [type |-> "FILL",     id |-> 2, cells |-> <<"cFuel">>],
    cFuel   |-> [type |-> "MATERIAL", id |-> 3, cells |-> << >>],
    cWater  |-> [type |-> "MATERIAL", id |-> 4, cells |-> << >>],
    cVoid   |-> [type |-> "MATERIAL", id |-> 5, cells |-> << >>],
    cHollow |-> [type |-> "FILL",     id |-> 6, cells |-> << >>] ]

Cells == DOMAIN CellData

(* Cell::getAllCells: the cells of the universe a FILL cell is filled      *)
(* with, those of nested FILL cells included.                              *)
RECURSIVE getAllCells(_)
RECURSIVE AllCellsOf(_, _)
AllCellsOf(cells, j) ==
  IF j > Len(cells) THEN << >>
  ELSE <<cells[j]>> \o getAllCells(cells[j]) \o AllCellsOf(cells, j + 1)

getAllCells(cell) == AllCellsOf(CellData[cell].cells, 1)

(* Geometry::findCellContainingFSR.                                        *)
FSRCells ==
  [ gA |-> <<"cFuel", "cWater">>, gB |-> <<"cFuel">>, gC |-> <<"cFuel">>,
    gZ |-> << >> ]

findCellContainingFSR(geometry, r) == FSRCells[geometry][r + 1]

PolarQuads == {"TYdefault", "userQuad", "userQuad2"}

PolarQuadAngles == [TYdefault |-> 3, userQuad |-> 2, userQuad2 |-> 1]

(* Cmfd::isFluxUpdateOn() of the Cmfd objects of the catalogue: on for     *)
(* "cmfd", off for "cmfdOff".                                              *)
isFluxUpdateOn(c) == c = "cmfd"

-----------------------------------------------------------------------------
(* Arrays.  A pointer member is a record: alloc = FALSE is the NULL        *)
(* pointer; an allocated array carries its index set as the domain of      *)
(* data.                                                                   *)

NullArray == [alloc |-> FALSE, data |-> [x \in {} |-> 0]]

NewArray(index, v) == [alloc |-> TRUE, data |-> [x \in index |-> v]]

FSRGroupIndex(s) == (0 .. s.num_FSRs - 1) \X (0 .. s.num_groups - 1)

(* The assembled source field is kept symbolically: the inputs it was last *)
(* assembled from.                                                         *)
NoSource == [alloc |-> FALSE, index |-> {}, assembled |-> FALSE,
             flux |-> NullArray.data, normalized |-> FALSE, k_eff |-> 0]

-----------------------------------------------------------------------------
(* log_printf(ERROR, ...) raises: the call ends at once with the error.     *)
(* Every other level only prints.                                          *)

log_printf(level, what) == IF level = "ERROR" THEN what ELSE "ok"

Ret(s, e) == [s |-> s, err |-> e]


-----------------------------------------------------------------------------
(* The calls a method makes to the kernels of the back end and to the Cmfd *)
(* object are noted, in the order they are made, in the field calls; the   *)
(* calling program takes the notes of a step away when the step is over.   *)
Called(s, c) == [s EXCEPT !.calls = Append(@, c)]

(* The Solver constructor up to its optional setTrackGenerator call:       *)
(* every pointer NULL, every count zero.  _k_eff and _tot_num_tracks       *)
(* are not assigned by the constructor: k_eff holds whatever the memory    *)
(* held (garbage), tot_num_tracks is never read before setTrackGenerator   *)
(* assigns it.                                                             *)

EmptySolver(garbage) ==
  [ num_materials |-> 0, num_groups |-> 0, num_azim |-> 0,
    num_FSRs |-> 0, num_fissionable_FSRs |-> 0,
    FSR_volumes |-> NullArray, FSR_materials |-> NullArray,
    track_generator |-> NULL, geometry |-> NULL, cmfd |-> NULL,
    exp_evaluator |-> [interpolate |-> TRUE,
                       max_optical_length |-> DefaultMaxOpticalLength,
                       polar_quad |-> NULL, table |-> 0],
    tracks |-> [alloc |-> FALSE, of |-> NULL], tot_num_tracks |-> 0,
    polar_weights |-> NullArray, boundary_flux |-> NullArray,
    scalar_flux |-> NullArray, old_scalar_flux |-> NullArray,
    fixed_sources |-> NullArray, reduced_sources |-> NoSource,
    user_polar_quad |-> FALSE, polar_quad |-> NULL,
    num_polar |-> 0, polar_times_groups |-> 0,
    num_iterations |-> 0, converge_thresh |-> 0, k_eff |-> garbage,
    timer |-> [running |-> FALSE, split |-> FALSE],
    calls |-> << >> ]

(* Solver::setGeometry.                                                    *)
setGeometry(s, geometry) ==
  IF Geometries[geometry].numFSRs = 0
    THEN Ret(s, log_printf("ERROR", "ConfigurationError"))
    ELSE Ret([s EXCEPT !.geometry = geometry,
                       !.cmfd = Geometries[geometry].cmfd,
                       !.num_FSRs = Geometries[geometry].numFSRs,
                       !.num_groups = Geometries[geometry].numEnergyGroups,
                       !.polar_times_groups =
                           Geometries[geometry].numEnergyGroups * s.num_polar,
                       !.num_materials = Geometries[geometry].numMaterials],
             "ok")

(* The assignments of Solver::setTrackGenerator between its check and its  *)
(* setGeometry call.                                                       *)
bindTracks(s, tg) ==
  [s EXCEPT !.track_generator = tg,
            !.num_azim = TrackGeneratorData[tg].numAzim \div 2,
            !.tot_num_tracks = TrackGeneratorData[tg].numTracks,
            !.tracks = [alloc |-> TRUE, of |-> tg]]

(* A slip of setTrackGenerator: the tracks are bound before the check.     *)
setTrackGenerator_bindFirst(s, tg) ==
  IF ~TrackGeneratorData[tg].containsTracks
    THEN Ret(bindTracks(s, tg), log_printf("ERROR", "ConfigurationError"))
    ELSE setGeometry(bindTracks(s, tg), TrackGeneratorData[tg].geometry)

(* Solver::setTrackGenerator.                                              *)
setTrackGenerator(s, tg) ==
  IF ~TrackGeneratorData[tg].containsTracks
    THEN Ret(s, log_printf("ERROR", "ConfigurationError"))
    ELSE setGeometry(bindTracks(s, tg), TrackGeneratorData[tg].geometry)

(* Solver::setPolarQuadrature.                                             *)
setPolarQuadrature(s, polar_quad) ==
  [s EXCEPT !.user_polar_quad = TRUE,
            !.polar_quad = polar_quad,
            !.num_polar = PolarQuadAngles[polar_quad],
            !.polar_times_groups = s.num_groups * PolarQuadAngles[polar_quad]]

(* A slip of setConvergenceThreshold: the value is stored before the check. *)
setConvergenceThreshold_storeFirst(s, threshold) ==
  Ret([s EXCEPT !.converge_thresh = threshold],
      IF threshold <= 0 THEN log_printf("ERROR", "InvalidArgument") ELSE "ok")

(* Solver::setConvergenceThreshold.                                        *)
setConvergenceThreshold(s, threshold) ==
  IF threshold <= 0
    THEN Ret(s, log_printf("ERROR", "InvalidArgument"))
    ELSE Ret([s EXCEPT !.converge_thresh = threshold], "ok")

(* Solver::setMaxOpticalLength, useExponentialInterpolation and            *)
(* useExponentialIntrinsic hand their argument to the ExpEvaluator.        *)
setMaxOpticalLength(s, max_optical_length) ==
  [s EXCEPT !.exp_evaluator.max_optical_length = max_optical_length]

useExponentialInterpolation(s) == [s EXCEPT !.exp_evaluator.interpolate = TRUE]

useExponentialIntrinsic(s) == [s EXCEPT !.exp_evaluator.interpolate = FALSE]

(* Solver::~Solver: the PolarQuad objects it deletes.  The arrays and the  *)
(* ExpEvaluator it deletes are the Solver's own.                           *)
destroySolver(s) ==
  IF s.polar_quad # NULL /\ ~s.user_polar_quad THEN {s.polar_quad} ELSE {}

(* The rest of the constructor, after the optional setTrackGenerator call. *)
finishConstructor(s) ==
  [s EXCEPT !.user_polar_quad = FALSE,
            !.polar_quad = "TYdefault",
            !.num_polar = DefaultNumPolar,
            !.polar_times_groups = 0,
            !.num_iterations = 0,
            !.converge_thresh = DefaultThresh]


-----------------------------------------------------------------------------
(* The steps of a solve call, in the order of the source.                  *)

(* Solver::clearTimerSplits, and the Timer calls around a solve.           *)
clearTimerSplits(s) ==
  [Called(s, <<"clearSplit", "Total time">>) EXCEPT !.timer.split = FALSE]

startTimer(s) == [Called(s, <<"startTimer">>) EXCEPT !.timer.running = TRUE]

stopTimer(s) == [Called(s, <<"stopTimer">>) EXCEPT !.timer.running = FALSE]

recordSplit(s) ==
  [Called(s, <<"recordSplit", "Total time">>) EXCEPT !.timer.split = TRUE]

(* Solver::initializePolarQuadrature.  Entry (i, p) of the weights is kept *)
(* as the factors it is the product of: the track generator's azimuthal    *)
(* weight i and the quadrature's multiple p.                               *)
initializePolarQuadrature(s) ==
  [Called(s, <<"initializePolarQuadrature">>)
     EXCEPT !.polar_times_groups = s.num_groups * s.num_polar,
            !.polar_weights =
               [alloc |-> TRUE,
                data |-> [x \in (0 .. s.num_azim - 1) \X (0 .. s.num_polar - 1)
                            |-> <<s.track_generator, x[1], s.polar_quad, x[2]>>]]]

Min(a, b) == IF a < b THEN a ELSE b

(* Solver::initializeExpEvaluator: measured is what the track generator    *)
(* answers to getMaxOpticalLength.  table is the bound the interpolation   *)
(* table was last built for (0: never built).                              *)
(* A slip of initializeExpEvaluator: the user's bound is used as it is.    *)
initializeExpEvaluator_userBound(s, measured) ==
  LET bound == [Called(s, <<"ExpEvaluator.setPolarQuadrature", s.polar_quad>>)
                  EXCEPT !.exp_evaluator.polar_quad = s.polar_quad]
      max_tau == s.exp_evaluator.max_optical_length
      split == Called(bound, <<"splitSegments", max_tau>>)
      built == Called(Called(split, <<"ExpEvaluator.setMaxOpticalLength",
                                      max_tau>>),
                      <<"ExpEvaluator.initialize", max_tau>>)
  IN  IF s.exp_evaluator.interpolate
        THEN [built EXCEPT !.exp_evaluator.max_optical_length = max_tau,
                           !.exp_evaluator.table = max_tau]
        ELSE bound

initializeExpEvaluator(s, measured) ==
  LET bound == [Called(s, <<"ExpEvaluator.setPolarQuadrature", s.polar_quad>>)
                  EXCEPT !.exp_evaluator.polar_quad = s.polar_quad]
      max_tau == Min(measured, s.exp_evaluator.max_optical_length)
      split == Called(bound, <<"splitSegments", max_tau>>)
      built == Called(Called(split, <<"ExpEvaluator.setMaxOpticalLength",
                                      max_tau>>),
                      <<"ExpEvaluator.initialize", max_tau>>)
  IN  IF s.exp_evaluator.interpolate
        THEN [built EXCEPT !.exp_evaluator.max_optical_length = max_tau,
                           !.exp_evaluator.table = max_tau]
        ELSE bound

(* TrackGenerator::splitSegments(max_tau): every segment longer than       *)
(* max_tau is cut into pieces no longer than max_tau, so the longest       *)
(* segment left is any length up to max_tau; nothing is cut when no        *)
(* segment exceeds it.                                                     *)
splitSegments(measured, max_tau) ==
  IF measured > max_tau THEN 1 .. max_tau ELSE {measured}

(* What the track generator measures after the initializeExpEvaluator call *)
(* of a solve.                                                             *)
measuredAfter(s, measured) ==
  IF s.exp_evaluator.interpolate
    THEN splitSegments(measured,
                       Min(measured, s.exp_evaluator.max_optical_length))
    ELSE {measured}

(* The array kernels of the solver back end.                               *)
initializeFluxArrays(s) ==
  [Called(s, <<"initializeFluxArrays">>) EXCEPT !.boundary_flux =
               NewArray((0 .. s.tot_num_tracks - 1) \X (0 .. 1)
                          \X (0 .. s.polar_times_groups - 1), 0),
            !.scalar_flux = NewArray(FSRGroupIndex(s), 0),
            !.old_scalar_flux = NewArray(FSRGroupIndex(s), 0)]

flattenFSRFluxes(s, value) ==
  [Called(s, <<"flattenFSRFluxes", value>>) EXCEPT !.scalar_flux.data = [x \in DOMAIN s.scalar_flux.data |-> value]]

zeroTrackFluxes(s) ==
  [Called(s, <<"zeroTrackFluxes", s.boundary_flux.alloc>>) EXCEPT !.boundary_flux.data = [x \in DOMAIN s.boundary_flux.data |-> 0]]

initializeSourceArrays(s) ==
  [Called(s, <<"initializeSourceArrays">>) EXCEPT !.reduced_sources =
               [NoSource EXCEPT !.alloc = TRUE, !.index = FSRGroupIndex(s)],
            !.fixed_sources =
               IF s.fixed_sources.alloc THEN s.fixed_sources
               ELSE NewArray(FSRGroupIndex(s), 0)]

computeFSRSources(s) ==
  [Called(s, <<"computeFSRSources">>) EXCEPT !.reduced_sources.assembled = TRUE,
            !.reduced_sources.flux = s.scalar_flux.data,
            !.reduced_sources.k_eff = s.k_eff]

(* Scaling to a unit fission source: every entry of the scalar flux is     *)
(* divided by the total fission source.  norm is what that takes the       *)
(* entries of a uniform positive field to; it depends on the cross         *)
(* sections and volumes of the problem.                                    *)
normalizeFluxes(s, norm) ==
  [Called(s, <<"normalizeFluxes">>) EXCEPT !.scalar_flux.data =
               [x \in DOMAIN s.scalar_flux.data
                  |-> IF s.scalar_flux.data[x] = 0 THEN 0 ELSE norm]]

(* The sweep is noted with the scalar flux it starts from, the flux the    *)
(* reduced sources it integrates were assembled from, and the boundary     *)
(* fluxes it starts from and leaves.                                       *)
transportSweep(s, flux, bflux) ==
  [Called(s, <<"transportSweep", s.scalar_flux.data, s.reduced_sources.flux,
               s.boundary_flux.data,
               [x \in DOMAIN s.boundary_flux.data |-> bflux]>>)
     EXCEPT !.scalar_flux.data = flux,
            !.boundary_flux.data = [x \in DOMAIN s.boundary_flux.data |-> bflux]]

addSourceToScalarFlux(s, flux) ==
  [Called(s, <<"addSourceToScalarFlux">>) EXCEPT !.scalar_flux.data = flux]

computeResidual(s, res_type) == Called(s, <<"computeResidual", res_type>>)

storeFSRFluxes(s) ==
  [Called(s, <<"storeFSRFluxes">>)
     EXCEPT !.old_scalar_flux.data = s.scalar_flux.data]

computeKeff(s, k) == [Called(s, <<"computeKeff">>) EXCEPT !.k_eff = k]

(* A slip of the Cmfd calls: iterations are counted from one.              *)
cmfdUpdate_countFromOne(s, i, k, bflux) ==
  [Called(Called(s, <<"cmfd.computeKeff", i + 1>>),
          <<"cmfd.updateBoundaryFlux", s.boundary_flux.data,
            [x \in DOMAIN s.boundary_flux.data |-> bflux]>>)
     EXCEPT !.k_eff = k,
            !.boundary_flux.data = [x \in DOMAIN s.boundary_flux.data |-> bflux]]

(* _k_eff = _cmfd->computeKeff(i), then _cmfd->updateBoundaryFlux, noted   *)
(* with the boundary fluxes it starts from and leaves.                     *)
cmfdUpdate(s, i, k, bflux) ==
  [Called(Called(s, <<"cmfd.computeKeff", i>>),
          <<"cmfd.updateBoundaryFlux", s.boundary_flux.data,
            [x \in DOMAIN s.boundary_flux.data |-> bflux]>>)
     EXCEPT !.k_eff = k,
            !.boundary_flux.data = [x \in DOMAIN s.boundary_flux.data |-> bflux]]

(* Solver::initializeFSRs.                                                 *)
initializeFSRs(s) ==
  [Called(s, <<"initializeFSRs">>) EXCEPT !.FSR_volumes =
               [alloc |-> TRUE,
                data |-> [r \in 0 .. s.num_FSRs - 1
                            |-> <<s.track_generator, r>>]],
            !.FSR_materials =
               [alloc |-> TRUE,
                data |-> [r \in 0 .. s.num_FSRs - 1
                            |-> findFSRMaterial(s.geometry, r)]],
            !.num_fissionable_FSRs = 0]

(* Solver::countFissionableFSRs.                                           *)
countFissionableFSRs(s) ==
  [s EXCEPT !.num_fissionable_FSRs =
               Cardinality({r \in 0 .. s.num_FSRs - 1 :
                              isFissionable(s.FSR_materials.data[r])})]

(* A slip of the Cmfd test: the flux update switch is not looked at.       *)
usesCmfd_anyCmfd(s) == s.cmfd # NULL

(* if (_cmfd != NULL && _cmfd->isFluxUpdateOn())                           *)
usesCmfd(s) == s.cmfd # NULL /\ isFluxUpdateOn(s.cmfd)

(* Solver::initializeCmfd hands the arrays to the Cmfd object: it is noted *)
(* with the arrays allocated at that moment.                               *)
initializeCmfd(s) ==
  Called(s, <<"initializeCmfd", s.FSR_volumes.alloc, s.FSR_materials.alloc,
              s.scalar_flux.alloc>>)


-----------------------------------------------------------------------------
(* The three solve calls: the part before the loop.                        *)

(* A slip of the condition: the iteration count is not looked at.         *)
newFluxArrays_onlyFlag(s, only_fixed_source) == only_fixed_source

(* computeFlux allocates new flux arrays on this condition.                *)
newFluxArrays(s, only_fixed_source) ==
  only_fixed_source \/ s.num_iterations = 0

(* A slip of the computeFlux set-up: the track fluxes are zeroed before    *)
(* the flux arrays of the call are made.                                   *)
computeFluxSetup_zeroFirst(s, only_fixed_source, measured) ==
  LET s1 == startTimer(clearTimerSplits(s))
      s2 == zeroTrackFluxes(
              initializeExpEvaluator(initializePolarQuadrature(s1), measured))
      s3 == IF newFluxArrays(s, only_fixed_source)
              THEN flattenFSRFluxes(initializeFluxArrays(s2), 0)
              ELSE s2
      s4 == countFissionableFSRs(initializeFSRs(initializeSourceArrays(s3)))
  IN  computeFSRSources(s4)

computeFluxSetup(s, only_fixed_source, measured) ==
  LET s1 == startTimer(clearTimerSplits(s))
      s2 == initializeExpEvaluator(initializePolarQuadrature(s1), measured)
      s3 == IF newFluxArrays(s, only_fixed_source)
              THEN flattenFSRFluxes(initializeFluxArrays(s2), 0)
              ELSE s2
      s4 == countFissionableFSRs(initializeFSRs(initializeSourceArrays(s3)))
  IN  computeFSRSources(zeroTrackFluxes(s4))

(* A slip of the computeSource set-up: the flux guess is zero.             *)
computeSourceSetup_zeroGuess(s, k_eff, measured) ==
  LET s1 == startTimer(clearTimerSplits(s))
      s2 == [s1 EXCEPT !.k_eff = k_eff]
      s3 == initializeExpEvaluator(initializePolarQuadrature(s2), measured)
      s4 == initializeFSRs(initializeSourceArrays(initializeFluxArrays(s3)))
  IN  zeroTrackFluxes(flattenFSRFluxes(s4, 0))

computeSourceSetup(s, k_eff, measured) ==
  LET s1 == startTimer(clearTimerSplits(s))
      s2 == [s1 EXCEPT !.k_eff = k_eff]
      s3 == initializeExpEvaluator(initializePolarQuadrature(s2), measured)
      s4 == initializeFSRs(initializeSourceArrays(initializeFluxArrays(s3)))
  IN  zeroTrackFluxes(flattenFSRFluxes(s4, 1))

(* A slip of the eigenvalue set-up: the guess k_eff = 1.0 is not assigned. *)
computeEigenvalueSetup_noGuess(s, measured) ==
  LET s1 == startTimer(clearTimerSplits(s))
      s3 == initializeExpEvaluator(initializePolarQuadrature(s1), measured)
      s4 == initializeFSRs(initializeSourceArrays(initializeFluxArrays(s3)))
      s5 == countFissionableFSRs(s4)
      s6 == IF usesCmfd(s5) THEN initializeCmfd(s5) ELSE s5
  IN  zeroTrackFluxes(flattenFSRFluxes(s6, 1))

computeEigenvalueSetup(s, measured) ==
  LET s1 == startTimer(clearTimerSplits(s))
      s2 == [s1 EXCEPT !.k_eff = 1]
      s3 == initializeExpEvaluator(initializePolarQuadrature(s2), measured)
      s4 == initializeFSRs(initializeSourceArrays(initializeFluxArrays(s3)))
      s5 == countFissionableFSRs(s4)
      s6 == IF usesCmfd(s5) THEN initializeCmfd(s5) ELSE s5
  IN  zeroTrackFluxes(flattenFSRFluxes(s6, 1))

(* A slip of computeFlux: the timer is reset and started before the check. *)
computeFlux_timerFirst(s, only_fixed_source, measured) ==
  IF s.track_generator = NULL
    THEN Ret(startTimer(clearTimerSplits(s)),
             log_printf("ERROR", "ConfigurationError"))
    ELSE Ret(computeFluxSetup(s, only_fixed_source, measured), "ok")

(* Solver::computeFlux, up to its loop.                                    *)
computeFlux(s, only_fixed_source, measured) ==
  IF s.track_generator = NULL
    THEN Ret(s, log_printf("ERROR", "ConfigurationError"))
    ELSE Ret(computeFluxSetup(s, only_fixed_source, measured), "ok")

(* A slip of computeSource: k_eff is checked after the timer is reset and  *)
(* the argument stored.                                                    *)
computeSource_lateCheck(s, k_eff, measured) ==
  IF s.track_generator = NULL
    THEN Ret(s, log_printf("ERROR", "ConfigurationError"))
    ELSE IF k_eff <= 0
      THEN Ret([clearTimerSplits(s) EXCEPT !.k_eff = k_eff],
               log_printf("ERROR", "InvalidArgument"))
      ELSE Ret(computeSourceSetup(s, k_eff, measured), "ok")

(* Solver::computeSource, up to its loop.                                  *)
computeSource(s, k_eff, measured) ==
  IF s.track_generator = NULL
    THEN Ret(s, log_printf("ERROR", "ConfigurationError"))
    ELSE IF k_eff <= 0
      THEN Ret(s, log_printf("ERROR", "InvalidArgument"))
      ELSE Ret(computeSourceSetup(s, k_eff, measured), "ok")

(* Solver::computeEigenvalue, up to its loop.                              *)
computeEigenvalue(s, measured) ==
  IF s.track_generator = NULL
    THEN Ret(s, log_printf("ERROR", "ConfigurationError"))
    ELSE Ret(computeEigenvalueSetup(s, measured), "ok")

-----------------------------------------------------------------------------
(* The loop of a solve call.                                               *)

(* A slip of the loop bound: one sweep too many.                           *)
loopCondition_inclusive(i, max_iters) == i <= max_iters

(* for (int i=0; i < max_iters; i++)                                       *)
loopCondition(i, max_iters) == i < max_iters

(* A slip of the convergence test: success already at index 1.            *)
converged_fromIndexOne(s, i, residual) == i > 0 /\ residual < s.converge_thresh

(* if (i > 1 && residual < _converge_thresh)                               *)
converged(s, i, residual) == i > 1 /\ residual < s.converge_thresh

(* What the kernels of one iteration compute, drawn from small sets: a    *)
(* sweep leaves a level v in the scalar flux and in the boundary fluxes,   *)
(* and the residual is any value.  An eigenvalue sweep starts from a       *)
(* positive source and leaves a positive flux.                             *)
FluxField(s, v) == [x \in DOMAIN s.scalar_flux.data |-> v]

KernelResults(s, levels) ==
  {[flux |-> FluxField(s, v), bflux |-> v, residual |-> r] :
     v \in levels, r \in 0 .. MaxRes}

computeFluxIteration(s, out) ==
  LET s1 == transportSweep(s, out.flux, out.bflux)
      s2 == computeResidual(addSourceToScalarFlux(s1, out.flux), "SCALAR_FLUX")
  IN  storeFSRFluxes(s2)

computeSourceIteration(s, res_type, out) ==
  LET s1 == transportSweep(computeFSRSources(s), out.flux, out.bflux)
      s2 == computeResidual(addSourceToScalarFlux(s1, out.flux), res_type)
  IN  storeFSRFluxes(s2)

computeEigenvalueIteration(s, i, res_type, norm, out, k, cbflux) ==
  LET s1 == computeFSRSources(normalizeFluxes(s, norm))
      s2 == transportSweep(s1, out.flux, out.bflux)
      s3 == computeResidual(addSourceToScalarFlux(s2, out.flux), res_type)
      s4 == storeFSRFluxes(s3)
  IN  IF usesCmfd(s4) THEN cmfdUpdate(s4, i, k, cbflux) ELSE computeKeff(s4, k)

(* A slip of the return: the split is recorded from a running timer.      *)
finishSolve_noStop(s, num_iterations) ==
  recordSplit([s EXCEPT !.num_iterations = num_iterations])

(* The three statements before each return of a solve call.                *)
finishSolve(s, num_iterations) ==
  recordSplit(stopTimer([s EXCEPT !.num_iterations = num_iterations]))


-----------------------------------------------------------------------------
(* Queries and the fixed-source setter.  A query answers with the error it *)
(* raised and whether it read an element of an array.                      *)

Answer(e, reads) == [err |-> e, reads |-> reads]

(* Solver::getFSRScalarFlux.                                               *)
getFSRScalarFlux(s, fsr_id, group) ==
  IF fsr_id >= s.num_FSRs
    THEN Answer(log_printf("ERROR", "OutOfRange"), FALSE)
  ELSE IF fsr_id < 0
    THEN Answer(log_printf("ERROR", "OutOfRange"), FALSE)
  ELSE IF group - 1 >= s.num_groups
    THEN Answer(log_printf("ERROR", "OutOfRange"), FALSE)
  ELSE IF group <= 0
    THEN Answer(log_printf("ERROR", "OutOfRange"), FALSE)
  ELSE IF ~s.scalar_flux.alloc
    THEN Answer(log_printf("ERROR", "NotReady"), FALSE)
  ELSE Answer("ok", TRUE)

(* Solver::getFSRVolume.  reads tells whether _FSR_volumes[fsr_id] was     *)
(* read.                                                                   *)
getFSRVolume(s, fsr_id) ==
  IF fsr_id < 0 \/ fsr_id > s.num_FSRs
    THEN Answer(log_printf("ERROR", "OutOfRange"), FALSE)
  ELSE IF ~s.FSR_volumes.alloc
    THEN Answer(log_printf("ERROR", "NotReady"), FALSE)
  ELSE Answer("ok", TRUE)

(* How a call that read _FSR_volumes[fsr_id] ends: with a value when the   *)
(* element is one of the array, with a value or a crash when it is not.    *)
afterVolumeRead(s, fsr_id) ==
  IF fsr_id \in DOMAIN s.FSR_volumes.data THEN {"ok"} ELSE {"ok", "crash"}

(* A slip of getFSRSource: the upper FSR bound is checked with >.          *)
getFSRSource_inclusive(s, fsr_id, group) ==
  IF fsr_id > s.num_FSRs
    THEN Answer(log_printf("ERROR", "OutOfRange"), FALSE)
  ELSE IF fsr_id < 0
    THEN Answer(log_printf("ERROR", "OutOfRange"), FALSE)
  ELSE IF group - 1 >= s.num_groups
    THEN Answer(log_printf("ERROR", "OutOfRange"), FALSE)
  ELSE IF group <= 0
    THEN Answer(log_printf("ERROR", "OutOfRange"), FALSE)
  ELSE IF ~s.scalar_flux.alloc
    THEN Answer(log_printf("ERROR", "NotReady"), FALSE)
  ELSE Answer("ok", TRUE)

(* Solver::getFSRSource.                                                   *)
getFSRSource(s, fsr_id, group) ==
  IF fsr_id >= s.num_FSRs
    THEN Answer(log_printf("ERROR", "OutOfRange"), FALSE)
  ELSE IF fsr_id < 0
    THEN Answer(log_printf("ERROR", "OutOfRange"), FALSE)
  ELSE IF group - 1 >= s.num_groups
    THEN Answer(log_printf("ERROR", "OutOfRange"), FALSE)
  ELSE IF group <= 0
    THEN Answer(log_printf("ERROR", "OutOfRange"), FALSE)
  ELSE IF ~s.scalar_flux.alloc
    THEN Answer(log_printf("ERROR", "NotReady"), FALSE)
  ELSE Answer("ok", TRUE)

(* A slip of setFixedSourceByFSR: the upper FSR bound is checked with >.   *)
setFixedSourceByFSR_inclusive(s, fsr_id, group, source) ==
  IF group <= 0 \/ group > s.num_groups
    THEN log_printf("ERROR", "OutOfRange")
  ELSE IF fsr_id < 0 \/ fsr_id > s.num_FSRs
    THEN log_printf("ERROR", "OutOfRange")
  ELSE "ok"

(* Solver::setFixedSourceByFSR: its two checks, one after the other.       *)
(* The arithmetic of getFSRSource on exact fractions.                      *)
Value(n) == [num |-> n, den |-> 1, unit |-> "1"]

Plus(v, n) == [v EXCEPT !.num = v.num + n * v.den]

DividedBy(v, n) == [v EXCEPT !.den = v.den * n]

Times(v, unit) == [v EXCEPT !.unit = unit]

(* for (int e=0; e < _num_groups; e++) source += term[e];                  *)
RECURSIVE SourceLoop(_, _, _)
SourceLoop(source, term, num_groups) ==
  IF num_groups = 0 THEN source
  ELSE Plus(SourceLoop(source, term, num_groups - 1), term[num_groups - 1])

fissionTerms(s, material, fsr_id) ==
  [e \in 0 .. s.num_groups - 1
     |-> s.scalar_flux.data[<<fsr_id, e>>] * getNuSigmaF(material)[e]]

scatterTerms(s, material, fsr_id, group) ==
  [g \in 0 .. s.num_groups - 1
     |-> getSigmaSByGroupInline(material, g, group - 1)
           * s.scalar_flux.data[<<fsr_id, g>>]]

(* A slip of getFSRSource: source = source / _k_eff * chi[group-1].        *)
getFSRSourceValue_timesChi(s, fsr_id, group) ==
  LET material == s.FSR_materials.data[fsr_id]
      fission == SourceLoop(Value(0), fissionTerms(s, material, fsr_id),
                            s.num_groups)
      source == IF isFissionable(material)
                  THEN [DividedBy(fission, s.k_eff)
                          EXCEPT !.num = @ * getChi(material)[group - 1]]
                  ELSE Value(0)
      scatter == SourceLoop(source, scatterTerms(s, material, fsr_id, group),
                            s.num_groups)
  IN  Times(Plus(scatter, s.fixed_sources.data[<<fsr_id, group - 1>>]),
            "ONE_OVER_FOUR_PI")

(* Solver::getFSRSource after its checks: the value it returns.            *)
getFSRSourceValue(s, fsr_id, group) ==
  LET material == s.FSR_materials.data[fsr_id]
      fission == SourceLoop(Value(0), fissionTerms(s, material, fsr_id),
                            s.num_groups)
      source == IF isFissionable(material)
                  THEN DividedBy(fission,
                                 s.k_eff * getChi(material)[group - 1])
                  ELSE Value(0)
      scatter == SourceLoop(source, scatterTerms(s, material, fsr_id, group),
                            s.num_groups)
  IN  Times(Plus(scatter, s.fixed_sources.data[<<fsr_id, group - 1>>]),
            "ONE_OVER_FOUR_PI")

(* The reads of getFSRSource stay inside the arrays and its division is by *)
(* a nonzero number: the arrays were allocated for the dimensions the      *)
(* Solver has now.                                                         *)
readsInsideArrays(s, fsr_id, group) ==
  /\ s.FSR_materials.alloc
  /\ DOMAIN s.FSR_materials.data = 0 .. s.num_FSRs - 1
  /\ DOMAIN s.scalar_flux.data = FSRGroupIndex(s)
  /\ s.fixed_sources.alloc
  /\ DOMAIN s.fixed_sources.data = FSRGroupIndex(s)
  /\ isFissionable(s.FSR_materials.data[fsr_id])
       => s.k_eff * getChi(s.FSR_materials.data[fsr_id])[group - 1] # 0

(* What a read outside an array, or a division by zero, may return.        *)
AnyValue == {[num |-> n, den |-> 1, unit |-> "ONE_OVER_FOUR_PI"] : n \in 0 .. 1}

getFSRSourceValues(s, fsr_id, group) ==
  IF readsInsideArrays(s, fsr_id, group)
    THEN {getFSRSourceValue(s, fsr_id, group)}
    ELSE AnyValue

(* The store of a fixed source by the solver back end, after the checks of *)
(* Solver::setFixedSourceByFSR: the field is allocated when there is none. *)
storeFixedSource(s, fsr_id, group, source) ==
  LET field == IF s.fixed_sources.alloc THEN s.fixed_sources
               ELSE NewArray(FSRGroupIndex(s), 0)
  IN  [s EXCEPT !.fixed_sources =
                   [field EXCEPT !.data[<<fsr_id, group - 1>>] = source]]

setFixedSourceByFSR(s, fsr_id, group, source) ==
  IF group <= 0 \/ group > s.num_groups
    THEN log_printf("ERROR", "OutOfRange")
  ELSE IF fsr_id < 0 \/ fsr_id >= s.num_FSRs
    THEN log_printf("ERROR", "OutOfRange")
  ELSE "ok"

(* for (int r=0; r < _num_FSRs; r++) if (matches) setFixedSourceByFSR(r,   *)
(* group, source): the loop from region r on.  Each call is noted; one     *)
(* that raises ends the loop.                                              *)
RECURSIVE setFixedSourceOfFSRs(_, _, _, _, _)
setFixedSourceOfFSRs(s, matches, r, group, source) ==
  IF r >= s.num_FSRs THEN Ret(s, "ok")
  ELSE IF matches[r]
    THEN LET err == setFixedSourceByFSR(s, r, group, source)
             s1 == Called(s, <<"setFixedSourceByFSR", r, group, source>>)
         IN  IF err # "ok" THEN Ret(s1, err)
             ELSE setFixedSourceOfFSRs(s1, matches, r + 1, group, source)
  ELSE setFixedSourceOfFSRs(s, matches, r + 1, group, source)

(* A slip of setFixedSourceByCell: a FILL cell is treated like a MATERIAL  *)
(* cell.                                                                   *)
setFixedSourceByCell_flat(s, cell, group, source) ==
  setFixedSourceOfFSRs(
    s,
    [r \in 0 .. s.num_FSRs - 1
       |-> CellData[cell].id
             = CellData[findCellContainingFSR(s.geometry, r)].id],
    0, group, source)

(* Solver::setFixedSourceByCell, and its loop over the cells of a FILL     *)
(* cell from the j-th on.                                                  *)
RECURSIVE setFixedSourceByCell(_, _, _, _)
RECURSIVE setFixedSourceByCells(_, _, _, _, _)
setFixedSourceByCells(s, cells, j, group, source) ==
  IF j > Len(cells) THEN Ret(s, "ok")
  ELSE LET done == setFixedSourceByCell(s, cells[j], group, source)
       IN  IF done.err # "ok" THEN done
           ELSE setFixedSourceByCells(done.s, cells, j + 1, group, source)

setFixedSourceByCell(s, cell, group, source) ==
  IF CellData[cell].type = "FILL"
    THEN setFixedSourceByCells(s, getAllCells(cell), 1, group, source)
    ELSE setFixedSourceOfFSRs(
           s,
           [r \in 0 .. s.num_FSRs - 1
              |-> CellData[cell].id
                    = CellData[findCellContainingFSR(s.geometry, r)].id],
           0, group, source)

(* Solver::setFixedSourceByMaterial.                                       *)
setFixedSourceByMaterial(s, material, group, source) ==
  setFixedSourceOfFSRs(
    s,
    [r \in 0 .. s.num_FSRs - 1
       |-> MaterialIds[material]
             = MaterialIds[findFSRMaterial(s.geometry, r)]],
    0, group, source)


-----------------------------------------------------------------------------
(* The calling program.  call is the frame of the solve call in progress;  *)
(* after the return it keeps what the call returned with (the loop index,  *)
(* the residual last computed) and, of a call that raised, the k_eff it    *)
(* was given.  hist records what the last operation was given and how it   *)
(* ended, and what the solve call in progress found on entry.              *)

ResidualTypes == {"SCALAR_FLUX", "TOTAL_SOURCE", "FISSION_SOURCE"}

NoCall == [pc |-> "idle", op |-> "none", max_iters |-> 0,
           only_fixed_source |-> FALSE, k_eff |-> 0, res_type |-> "SCALAR_FLUX",
           i |-> 0, residual |-> 0]

NoArg == [fsr_id |-> 0, group |-> 0, value |-> 0, obj |-> NULL]

(* A returned FP_PRECISION is kept exactly, as the fraction num / den of   *)
(* the unit it is in.                                                      *)
NoValue == [num |-> 0, den |-> 1, unit |-> "none"]

(* What the loop of a solve call starts from.                              *)
EntryState(s) ==
  [k_eff |-> s.k_eff, scalar_flux |-> s.scalar_flux,
   boundary_flux |-> s.boundary_flux, polar_weights |-> s.polar_weights,
   interpolate |-> s.exp_evaluator.interpolate,
   table |-> s.exp_evaluator.table]

NoEntry == [valid |-> FALSE, max_iters |-> 0, res_type |-> "SCALAR_FLUX",
            state |-> EntryState(EmptySolver(0))]

NoHist == [op |-> "none", outcome |-> "none", arg |-> NoArg, reads |-> FALSE,
           value |-> NoValue, exit |-> << >>,
           sweeps |-> 0, warned |-> FALSE, solved |-> FALSE,
           calls |-> << >>,
           new_flux |-> FALSE, entry_k |-> 0, entry_iterations |-> 0,
           entry_flux |-> NullArray, loop_entry |-> NoEntry,
           prev_entry |-> NoEntry]

(* The record of an operation that is not a solve call.                    *)
Did(op, outcome, arg, reads) ==
  [NoHist EXCEPT !.op = op, !.outcome = outcome, !.arg = arg,
                 !.reads = reads, !.solved = hist.solved]

(* The record of a solve call at its entry.                                *)
Entered(op, r, fresh, frame) ==
  IF r.err # "ok"
    THEN [NoHist EXCEPT !.op = op, !.outcome = r.err, !.solved = hist.solved]
    ELSE [NoHist EXCEPT
            !.op = op,
            !.outcome = "running",
            !.solved = hist.solved,
            !.calls = r.s.calls,
            !.new_flux = fresh,
            !.entry_k = solver.k_eff,
            !.entry_iterations = solver.num_iterations,
            !.entry_flux = solver.scalar_flux,
            !.loop_entry = IF op = "computeEigenvalue"
                             THEN [valid |-> TRUE,
                                   max_iters |-> frame.max_iters,
                                   res_type |-> frame.res_type,
                                   state |-> EntryState(r.s)]
                             ELSE NoEntry,
            !.prev_entry = IF op = "computeEigenvalue"
                             THEN hist.prev_entry ELSE NoEntry]

(* The record of a solve call at its return; exit is the calls noted by    *)
(* the statements before the return.                                       *)
Returned(outcome, sweeps, calls, exit) ==
  [NoHist EXCEPT !.op = hist.op, !.outcome = outcome, !.sweeps = sweeps,
                 !.calls = calls, !.exit = exit,
                 !.warned = (outcome = "exhausted"), !.solved = TRUE,
                 !.prev_entry = hist.loop_entry]

(* The frame a returning call leaves.                                      *)
ReturnFrame(i, residual) ==
  [NoCall EXCEPT !.op = call.op, !.max_iters = call.max_iters,
                 !.i = i, !.residual = residual]

IterArgs == -1 .. MaxIters

KeffArgs == -1 .. MaxKeff

MeasuredTau == [tg \in TrackGenerators |-> IF tg = "tgA" THEN MaxTau ELSE 1]

Constructed(track_generators) ==
  /\ \E garbage \in {0, MaxKeff}, tg \in track_generators :
       solver = finishConstructor(
                  IF tg = NULL THEN EmptySolver(garbage)
                  ELSE setTrackGenerator(EmptySolver(garbage), tg).s)
  /\ env = [max_tau |-> MeasuredTau, deleted |-> [q \in PolarQuads |-> 0]]
  /\ call = NoCall
  /\ hist = NoHist

Init == Constructed({NULL, "tgA", "tgB"})

-----------------------------------------------------------------------------
(* Configuration calls.                                                    *)

SetTrackGenerator(track_generators) ==
  /\ call.pc = "idle"
  /\ \E tg \in track_generators :
       LET r == setTrackGenerator(solver, tg)
       IN  /\ solver' = r.s
           /\ hist' = Did("setTrackGenerator", r.err,
                          [NoArg EXCEPT !.obj = tg], FALSE)
  /\ UNCHANGED <<env, call>>

SetPolarQuadrature(polar_quads) ==
  /\ call.pc = "idle"
  /\ \E polar_quad \in polar_quads :
       /\ solver' = setPolarQuadrature(solver, polar_quad)
       /\ hist' = Did("setPolarQuadrature", "ok",
                      [NoArg EXCEPT !.obj = polar_quad], FALSE)
  /\ UNCHANGED <<env, call>>

(* The engine is destroyed: the calling program can do no more with it.    *)
Destroy ==
  /\ call.pc = "idle"
  /\ call' = [NoCall EXCEPT !.pc = "destroyed"]
  /\ env' = [env EXCEPT !.deleted =
                [q \in PolarQuads |->
                   IF q \in destroySolver(solver) THEN @[q] + 1 ELSE @[q]]]
  /\ hist' = Did("~Solver", "ok", NoArg, FALSE)
  /\ UNCHANGED solver

SetConvergenceThreshold ==
  /\ call.pc = "idle"
  /\ \E threshold \in -1 .. MaxRes :
       LET r == setConvergenceThreshold(solver, threshold)
       IN  /\ solver' = r.s
           /\ hist' = Did("setConvergenceThreshold", r.err,
                          [NoArg EXCEPT !.value = threshold], FALSE)
  /\ UNCHANGED <<env, call>>

SetMaxOpticalLength ==
  /\ call.pc = "idle"
  /\ \E tau \in 1 .. MaxTau :
       /\ solver' = setMaxOpticalLength(solver, tau)
       /\ hist' = Did("setMaxOpticalLength", "ok",
                      [NoArg EXCEPT !.value = tau], FALSE)
  /\ UNCHANGED <<env, call>>

UseExponentialInterpolation ==
  /\ call.pc = "idle"
  /\ solver' = useExponentialInterpolation(solver)
  /\ hist' = Did("useExponentialInterpolation", "ok", NoArg, FALSE)
  /\ UNCHANGED <<env, call>>

UseExponentialIntrinsic ==
  /\ call.pc = "idle"
  /\ solver' = useExponentialIntrinsic(solver)
  /\ hist' = Did("useExponentialIntrinsic", "ok", NoArg, FALSE)
  /\ UNCHANGED <<env, call>>

-----------------------------------------------------------------------------
(* Queries and the fixed-source setter, with arguments in and around the   *)
(* current dimensions.                                                     *)

GetFSRScalarFlux ==
  /\ call.pc = "idle"
  /\ \E fsr_id \in -1 .. solver.num_FSRs, group \in 0 .. solver.num_groups + 1 :
       LET a == getFSRScalarFlux(solver, fsr_id, group)
       IN  hist' = Did("getFSRScalarFlux", a.err,
                       [NoArg EXCEPT !.fsr_id = fsr_id, !.group = group],
                       a.reads)
  /\ UNCHANGED <<solver, env, call>>

GetFSRVolume ==
  /\ call.pc = "idle"
  /\ \E fsr_id \in -1 .. solver.num_FSRs + 1 :
       LET a == getFSRVolume(solver, fsr_id)
       IN  \E outcome \in IF a.reads THEN afterVolumeRead(solver, fsr_id)
                            ELSE {a.err} :
             hist' = Did("getFSRVolume", outcome,
                         [NoArg EXCEPT !.fsr_id = fsr_id], a.reads)
  /\ UNCHANGED <<solver, env, call>>

GetFSRSource ==
  /\ call.pc = "idle"
  /\ \E fsr_id \in -1 .. solver.num_FSRs, group \in 0 .. solver.num_groups + 1 :
       LET a == getFSRSource(solver, fsr_id, group)
       IN  \E v \in IF a.err = "ok"
                      THEN getFSRSourceValues(solver, fsr_id, group)
                      ELSE {NoValue} :
             hist' = [Did("getFSRSource", a.err,
                          [NoArg EXCEPT !.fsr_id = fsr_id, !.group = group],
                          a.reads)
                        EXCEPT !.value = v]
  /\ UNCHANGED <<solver, env, call>>

(* setFixedSourceByFSR on a Solver whose back end stores the source.      *)
StoreFixedSourceByFSR ==
  /\ call.pc = "idle"
  /\ \E fsr_id \in -1 .. solver.num_FSRs, group \in 0 .. solver.num_groups + 1,
        source \in 0 .. MaxFlux :
       LET err == setFixedSourceByFSR(solver, fsr_id, group, source)
       IN  /\ solver' = IF err = "ok"
                          THEN storeFixedSource(solver, fsr_id, group, source)
                          ELSE solver
           /\ hist' = Did("setFixedSourceByFSR", err,
                          [NoArg EXCEPT !.fsr_id = fsr_id, !.group = group,
                                        !.value = source], FALSE)
  /\ UNCHANGED <<env, call>>

(* The calls of the two wider fixed-source setters; the region-level sets  *)
(* they made are kept in the record.                                       *)
SetFixedSourceByCell ==
  /\ call.pc = "idle"
  /\ \E cell \in Cells, group \in 0 .. solver.num_groups + 1,
        source \in 0 .. MaxFlux :
       LET r == setFixedSourceByCell(solver, cell, group, source)
       IN  hist' = [Did("setFixedSourceByCell", r.err,
                        [NoArg EXCEPT !.obj = cell, !.group = group,
                                      !.value = source], FALSE)
                      EXCEPT !.calls = r.s.calls]
  /\ UNCHANGED <<solver, env, call>>

SetFixedSourceByMaterial ==
  /\ call.pc = "idle"
  /\ \E material \in Materials, group \in 0 .. solver.num_groups + 1,
        source \in 0 .. MaxFlux :
       LET r == setFixedSourceByMaterial(solver, material, group, source)
       IN  hist' = [Did("setFixedSourceByMaterial", r.err,
                        [NoArg EXCEPT !.obj = material, !.group = group,
                                      !.value = source], FALSE)
                      EXCEPT !.calls = r.s.calls]
  /\ UNCHANGED <<solver, env, call>>

SetFixedSourceByFSR ==
  /\ call.pc = "idle"
  /\ \E fsr_id \in -1 .. solver.num_FSRs, group \in 0 .. solver.num_groups + 1,
        source \in 0 .. MaxFlux :
       hist' = Did("setFixedSourceByFSR",
                   setFixedSourceByFSR(solver, fsr_id, group, source),
                   [NoArg EXCEPT !.fsr_id = fsr_id, !.group = group,
                                 !.value = source], FALSE)
  /\ UNCHANGED <<solver, env, call>>

-----------------------------------------------------------------------------
(* Solve calls.                                                            *)

(* TrackGenerator::getMaxOpticalLength of the attached track generator.    *)
getMaxOpticalLength ==
  IF solver.track_generator = NULL THEN 0
  ELSE env.max_tau[solver.track_generator]

(* The entry of a solve call: r is what the part before the loop returned. *)
Enter(op, r, fresh, frame) ==
  /\ solver' = [r.s EXCEPT !.calls = << >>]
  /\ call' = IF r.err = "ok"
               THEN [frame EXCEPT !.op = op, !.pc = "loop"]
               ELSE [NoCall EXCEPT !.op = op, !.k_eff = frame.k_eff]
  /\ hist' = Entered(op, r, fresh, frame)
  /\ IF r.err = "ok"
       THEN \E m \in measuredAfter(solver, getMaxOpticalLength) :
              env' = [env EXCEPT !.max_tau[solver.track_generator] = m]
       ELSE env' = env

ComputeFlux(iters) ==
  /\ call.pc = "idle"
  /\ \E max_iters \in iters, only_fixed_source \in BOOLEAN :
       Enter("computeFlux",
             computeFlux(solver, only_fixed_source, getMaxOpticalLength),
             newFluxArrays(solver, only_fixed_source),
             [NoCall EXCEPT !.max_iters = max_iters,
                            !.only_fixed_source = only_fixed_source])

ComputeSource(iters, keffs, res_types) ==
  /\ call.pc = "idle"
  /\ \E max_iters \in iters, k_eff \in keffs, res_type \in res_types :
       Enter("computeSource",
             computeSource(solver, k_eff, getMaxOpticalLength), TRUE,
             [NoCall EXCEPT !.max_iters = max_iters, !.k_eff = k_eff,
                            !.res_type = res_type])

ComputeEigenvalue(iters, res_types) ==
  /\ call.pc = "idle"
  /\ \E max_iters \in iters, res_type \in res_types :
       Enter("computeEigenvalue",
             computeEigenvalue(solver, getMaxOpticalLength), TRUE,
             [NoCall EXCEPT !.max_iters = max_iters, !.res_type = res_type])

(* The end of an iteration: s is the Solver after the kernels ran.  The    *)
(* residual is a local that is dead once the test has failed.              *)
EndIteration(s, residual) ==
  LET tested == Called(s, <<"convergenceTest", call.i>>)
      done == [tested EXCEPT !.calls = << >>]
      fin == finishSolve(done, call.i)
  IN  /\ IF converged(s, call.i, residual)
            THEN /\ solver' = [fin EXCEPT !.calls = << >>]
                 /\ call' = ReturnFrame(call.i, residual)
                 /\ hist' = Returned("converged", hist.sweeps + 1,
                                     tested.calls, fin.calls)
            ELSE /\ solver' = done
                 /\ call' = [call EXCEPT !.i = call.i + 1]
                 /\ hist' = [hist EXCEPT !.sweeps = hist.sweeps + 1,
                                         !.calls = tested.calls]
      /\ UNCHANGED env

IterateFlux ==
  /\ call.pc = "loop" /\ call.op = "computeFlux"
  /\ loopCondition(call.i, call.max_iters)
  /\ \E out \in KernelResults(solver, 0 .. MaxFlux) :
       EndIteration(computeFluxIteration(solver, out), out.residual)

IterateSource ==
  /\ call.pc = "loop" /\ call.op = "computeSource"
  /\ loopCondition(call.i, call.max_iters)
  /\ \E out \in KernelResults(solver, 0 .. MaxFlux) :
       EndIteration(computeSourceIteration(solver, call.res_type, out),
                    out.residual)

IterateEigenvalue(norms) ==
  /\ call.pc = "loop" /\ call.op = "computeEigenvalue"
  /\ loopCondition(call.i, call.max_iters)
  /\ \E out \in KernelResults(solver, 1 .. MaxFlux), k \in 1 .. MaxKeff,
        norm \in norms :
       EndIteration(computeEigenvalueIteration(solver, call.i, call.res_type,
                                               norm, out, k, out.bflux),
                    out.residual)

(* The statements after the loop: the warning, which does not raise, and   *)
(* the return.                                                             *)
Exhaust ==
  /\ call.pc = "loop"
  /\ ~loopCondition(call.i, call.max_iters)
  /\ log_printf("WARNING", "ConvergenceWarning") = "ok"
  /\ LET fin == finishSolve(solver, call.max_iters)
     IN  /\ solver' = [fin EXCEPT !.calls = << >>]
         /\ hist' = Returned("exhausted", hist.sweeps, hist.calls, fin.calls)
  /\ call' = ReturnFrame(call.i, 0)
  /\ UNCHANGED env

(* The solve calls of a constructed engine, with the threshold setter.     *)
Next ==
  \/ SetConvergenceThreshold
  \/ ComputeFlux(IterArgs)
  \/ ComputeSource(IterArgs, KeffArgs, {"TOTAL_SOURCE"})
  \/ ComputeEigenvalue(IterArgs, {"FISSION_SOURCE"})
  \/ IterateFlux
  \/ IterateSource
  \/ IterateEigenvalue({1})
  \/ Exhaust

Spec == Init /\ [][Next]_vars


-----------------------------------------------------------------------------
(* Claims about the solve calls, checked under Spec.                       *)

SolveOps == {"computeFlux", "computeSource", "computeEigenvalue"}

Max0(n) == IF n < 0 THEN 0 ELSE n

(* C15: the convergence threshold is positive in every state: it is 1e-5   *)
(* after construction; setConvergenceThreshold with a value <= 0 fails     *)
(* with InvalidArgument and leaves the stored threshold (and everything    *)
(* else) as it was; with a positive value it stores that value; no step of *)
(* a solve call changes it.                                                *)
C15_ThresholdPositive ==
  /\ solver.converge_thresh = DefaultThresh
  /\ [][ /\ solver'.converge_thresh > 0
         /\ (call.pc = "idle" /\ hist'.op = "setConvergenceThreshold")
              => IF hist'.arg.value <= 0
                   THEN /\ hist'.outcome = "InvalidArgument"
                        /\ solver' = solver
                   ELSE /\ hist'.outcome = "ok"
                        /\ solver'.converge_thresh = hist'.arg.value
         /\ hist'.op \in SolveOps
              => solver'.converge_thresh = solver.converge_thresh ]_vars

(* C15 witness: setConvergenceThreshold(0) failed on an engine whose       *)
(* threshold had been set to 2.                                            *)
C15_Witness ==
  /\ hist.op = "setConvergenceThreshold" /\ hist.arg.value = 0
  /\ hist.outcome = "InvalidArgument"
  /\ solver.converge_thresh = 2

(* C1: a solve call never returns as converged (without the warning) at a  *)
(* loop index <= 1, and when it returns as converged the residual computed *)
(* in that last iteration is strictly below the convergence threshold.     *)
C1_ConvergedAfterIndexOneBelowThreshold ==
  (call.pc = "idle" /\ hist.outcome = "converged") =>
     /\ hist.op \in SolveOps
     /\ call.i > 1
     /\ call.residual < solver.converge_thresh
     /\ ~hist.warned

(* C1 witness: computeEigenvalue returned as converged at index 2 with a   *)
(* residual of 1 under a threshold of 2.                                   *)
C1_Witness ==
  /\ call.pc = "idle" /\ hist.outcome = "converged"
  /\ hist.op = "computeEigenvalue"
  /\ call.i = 2 /\ call.residual = 1 /\ solver.converge_thresh = 2

(* C2, as stated: a solve call performs at most maxIters transport sweeps. *)
C2_AtMostMaxItersSweeps ==
  (call.pc = "idle" /\ hist.outcome \in {"converged", "exhausted"}) =>
     hist.sweeps <= call.max_iters

(* What a return after the loop keeps of the Solver: the fluxes, the       *)
(* sources and k_eff.                                                      *)
LastComputed(s) ==
  <<s.scalar_flux, s.old_scalar_flux, s.boundary_flux, s.reduced_sources,
    s.k_eff>>

(* C2, amended: a solve call performs at most max(maxIters, 0) sweeps, and *)
(* when the loop ends without convergence the call warns, returns, leaves  *)
(* the last computed fluxes, sources and k_eff in place and sets the       *)
(* iteration count to maxIters.                                            *)
C2_SweepsBoundedAndExhaustionKeepsState ==
  [][ /\ (hist'.op \in SolveOps
            /\ hist'.outcome \in {"running", "converged", "exhausted"})
           => hist'.sweeps <= Max0(call'.max_iters)
      /\ (call.pc = "loop" /\ hist'.outcome = "exhausted")
           => /\ hist'.warned
              /\ call'.pc = "idle"
              /\ hist'.sweeps = Max0(call.max_iters)
              /\ solver'.num_iterations = call.max_iters
              /\ LastComputed(solver') = LastComputed(solver) ]_vars

(* C2 witness: computeSource ran out of iterations after MaxIters sweeps   *)
(* that left a flux of 1.                                                  *)
C2_Witness ==
  /\ call.pc = "idle" /\ hist.outcome = "exhausted" /\ hist.warned
  /\ hist.op = "computeSource"
  /\ hist.sweeps = MaxIters /\ solver.num_iterations = MaxIters
  /\ \E x \in DOMAIN solver.scalar_flux.data : solver.scalar_flux.data[x] = 1

(* C3: computeSource with k_eff <= 0 on an engine with a track generator   *)
(* fails with InvalidArgument, runs no sweep and changes nothing: every    *)
(* member of the Solver (fluxes, sources, k_eff, iteration count, timer)   *)
(* and the track generator's segments are as before.                       *)
C3_BadKeffChangesNothing ==
  [][ (/\ call.pc = "idle"
       /\ hist'.op = "computeSource"
       /\ call'.op = "computeSource"
       /\ call'.k_eff <= 0
       /\ solver.track_generator # NULL)
        => /\ hist'.outcome = "InvalidArgument"
           /\ call'.pc = "idle"
           /\ hist'.sweeps = 0
           /\ solver' = solver
           /\ env' = env ]_vars

(* C3 witness: computeSource(k_eff = -1) failed on an engine whose earlier *)
(* solve had left fluxes, a k_eff of MaxKeff and a recorded split.         *)
C3_Witness ==
  /\ hist.op = "computeSource" /\ hist.outcome = "InvalidArgument"
  /\ call.k_eff = -1
  /\ solver.scalar_flux.alloc /\ solver.timer.split
  /\ solver.k_eff = MaxKeff /\ solver.num_iterations = 2

(* C4: each solve call on an engine without a track generator fails with   *)
(* ConfigurationError before anything is touched: the Solver (timer and    *)
(* arrays included) is unchanged and no sweep is run.                      *)
C4_NoTrackGeneratorChangesNothing ==
  [][ (/\ call.pc = "idle"
       /\ hist'.op \in SolveOps
       /\ solver.track_generator = NULL)
        => /\ hist'.outcome = "ConfigurationError"
           /\ call'.pc = "idle"
           /\ hist'.sweeps = 0
           /\ solver' = solver
           /\ env' = env ]_vars

(* C4 witness: computeFlux failed on an engine constructed without a track *)
(* generator.                                                              *)
C4_Witness ==
  /\ hist.op = "computeFlux" /\ hist.outcome = "ConfigurationError"
  /\ solver.track_generator = NULL
  /\ ~solver.timer.running /\ ~solver.scalar_flux.alloc

(* The first sweep of a computeFlux call is about to start.                *)
AtFirstSweepOfComputeFlux ==
  call.pc = "loop" /\ call.op = "computeFlux" /\ call.i = 0

ZeroFlux(s) == NewArray(FSRGroupIndex(s), 0)

(* C8, as stated: computeFlux starts from new, zeroed flux arrays if and   *)
(* only if onlyFixedSource is true or no solve call has run before; in     *)
(* every other case the scalar flux at the first sweep is the flux the     *)
(* previous solve left behind.                                             *)
C8_NewFluxIffFlagOrNoPriorSolve ==
  AtFirstSweepOfComputeFlux =>
    IF call.only_fixed_source \/ ~hist.solved
      THEN solver.scalar_flux = ZeroFlux(solver)
      ELSE solver.scalar_flux = hist.entry_flux

(* C8, amended: computeFlux starts from new, zeroed flux arrays if and     *)
(* only if onlyFixedSource is true or the stored iteration count is 0 (no  *)
(* solve call has returned yet, or the last one was given maxIters = 0);   *)
(* in every other case the scalar flux at the first sweep is the flux the  *)
(* previous solve left behind.                                             *)
C8_NewFluxIffFlagOrZeroIterationCount ==
  AtFirstSweepOfComputeFlux =>
    IF call.only_fixed_source \/ hist.entry_iterations = 0
      THEN solver.scalar_flux = ZeroFlux(solver)
      ELSE solver.scalar_flux = hist.entry_flux

(* C8 witness: computeFlux(onlyFixedSource = false) after a solve that     *)
(* left a flux of 1 is about to sweep with that flux.                      *)
C8_Witness ==
  /\ AtFirstSweepOfComputeFlux /\ ~call.only_fixed_source
  /\ hist.solved /\ hist.entry_iterations # 0
  /\ solver.scalar_flux = hist.entry_flux
  /\ \E x \in DOMAIN solver.scalar_flux.data : solver.scalar_flux.data[x] = 1

(* C9, as stated: on entry to a solve call the iteration counter and k_eff *)
(* are set to values that do not depend on earlier calls: the counter to   *)
(* the 0 of a new engine, k_eff to the argument of computeSource and to    *)
(* the guess 1.0 otherwise.                                                *)
C9_ConvergenceStateResetOnEntry ==
  (call.pc = "loop" /\ call.i = 0) =>
     /\ solver.num_iterations = 0
     /\ solver.k_eff = IF call.op = "computeSource" THEN call.k_eff ELSE 1

(* C9, amended: on entry computeSource sets k_eff to its argument and      *)
(* computeEigenvalue sets it to 1.0, whatever earlier calls left;          *)
(* computeFlux does not set k_eff and assembles its sources with the value *)
(* it found; no solve call resets the iteration counter on entry: during   *)
(* the call it holds the value the call found.                             *)
C9_KeffSeededExceptInComputeFluxCounterKept ==
  (call.pc = "loop") =>
     /\ solver.num_iterations = hist.entry_iterations
     /\ call.op = "computeSource" =>
          /\ solver.k_eff = call.k_eff
          /\ solver.reduced_sources.assembled
               => solver.reduced_sources.k_eff = call.k_eff
     /\ (call.op = "computeEigenvalue" /\ call.i = 0) => solver.k_eff = 1
     /\ call.op = "computeFlux" =>
          /\ solver.k_eff = hist.entry_k
          /\ solver.reduced_sources.assembled
          /\ solver.reduced_sources.k_eff = hist.entry_k

(* C9 witness: a computeFlux call in its loop over a k_eff of MaxKeff and  *)
(* an iteration count of 2, both left by an earlier call.                  *)
C9_Witness ==
  /\ call.pc = "loop" /\ call.op = "computeFlux" /\ hist.solved
  /\ hist.entry_k = MaxKeff /\ solver.k_eff = MaxKeff
  /\ hist.entry_iterations = 2 /\ solver.num_iterations = 2


-----------------------------------------------------------------------------
(* Configuration and queries: track generators are attached (one of them   *)
(* without tracks), the quadrature is replaced, fluxes and sources are     *)
(* queried and fixed sources set, before and after a short computeSource.  *)

NextConfig ==
  \/ SetTrackGenerator({"tgA", "tgB", "tgEmpty"})
  \/ SetPolarQuadrature({"userQuad"})
  \/ GetFSRScalarFlux
  \/ GetFSRSource
  \/ GetFSRVolume
  \/ SetFixedSourceByFSR
  \/ ComputeSource({0, 1}, {1}, {"SCALAR_FLUX"})
  \/ IterateSource
  \/ Exhaust

SpecConfig == Init /\ [][NextConfig]_vars

(* C5: setTrackGenerator with a track generator that has not generated     *)
(* tracks fails with ConfigurationError and changes no member of the       *)
(* Solver: the track generator and geometry attached before, the track     *)
(* array, num_azim, tot_num_tracks, num_FSRs, num_groups and num_materials *)
(* are as before.                                                          *)
C5_TracklessGeneratorChangesNothing ==
  [][ (/\ call.pc = "idle"
       /\ hist'.op = "setTrackGenerator"
       /\ ~TrackGeneratorData[hist'.arg.obj].containsTracks)
        => /\ hist'.outcome = "ConfigurationError"
           /\ solver' = solver
           /\ env' = env ]_vars

(* C5 witness: attaching the trackless generator failed on an engine that  *)
(* still has tgB, its geometry and its dimensions.                         *)
C5_Witness ==
  /\ hist.op = "setTrackGenerator" /\ hist.arg.obj = "tgEmpty"
  /\ hist.outcome = "ConfigurationError"
  /\ solver.track_generator = "tgB" /\ solver.geometry = "gB"
  /\ solver.tracks = [alloc |-> TRUE, of |-> "tgB"]
  /\ solver.num_groups = 2

InRange(s, fsr_id, group) ==
  /\ 0 <= fsr_id /\ fsr_id < s.num_FSRs
  /\ 1 <= group /\ group <= s.num_groups

(* C6: setFixedSourceByFSR fails for group <= 0, group > num_groups,       *)
(* fsr < 0 and fsr >= num_FSRs, and succeeds for every (fsr, group) in     *)
(* range whatever the source value.  The call changes nothing, so the      *)
(* dimensions after it are those it checked against.                       *)
C6_FixedSourceByFSRRangeChecked ==
  hist.op = "setFixedSourceByFSR" =>
    IF InRange(solver, hist.arg.fsr_id, hist.arg.group)
      THEN hist.outcome = "ok"
      ELSE hist.outcome = "OutOfRange"

(* C6 witness: the call failed for fsr = num_FSRs with a group in range.   *)
C6_Witness ==
  /\ hist.op = "setFixedSourceByFSR" /\ hist.outcome = "OutOfRange"
  /\ solver.num_FSRs > 0 /\ hist.arg.fsr_id = solver.num_FSRs
  /\ hist.arg.group = solver.num_groups /\ hist.arg.value = MaxFlux

(* C7: getFSRScalarFlux and getFSRSource fail with OutOfRange for every    *)
(* (fsr, group) out of range, and with NotReady for one in range when no   *)
(* solve call has computed a flux yet; in those cases no element of the    *)
(* flux, material or fixed-source arrays is read.                          *)
C7_QueriesFailWithoutReading ==
  hist.op \in {"getFSRScalarFlux", "getFSRSource"} =>
    IF ~InRange(solver, hist.arg.fsr_id, hist.arg.group)
      THEN hist.outcome = "OutOfRange" /\ ~hist.reads
      ELSE ~hist.solved => (hist.outcome = "NotReady" /\ ~hist.reads)

(* C7 witness: getFSRSource failed with NotReady for the last FSR and the  *)
(* last group of an engine that has not solved yet.                        *)
C7_Witness ==
  /\ hist.op = "getFSRSource" /\ hist.outcome = "NotReady" /\ ~hist.reads
  /\ ~hist.solved
  /\ hist.arg.fsr_id = solver.num_FSRs - 1
  /\ hist.arg.group = solver.num_groups

-----------------------------------------------------------------------------
(* Eigenvalue solves with the exponential evaluator configured in between. *)

NextEigen ==
  \/ SetMaxOpticalLength
  \/ UseExponentialInterpolation
  \/ UseExponentialIntrinsic
  \/ ComputeEigenvalue(0 .. 2, {"FISSION_SOURCE", "SCALAR_FLUX"})
  \/ IterateEigenvalue({1})
  \/ Exhaust

SpecEigen == Init /\ [][NextEigen]_vars

(* A computeEigenvalue call is about to sweep for the first time, and the  *)
(* operation before it was a computeEigenvalue call given the same         *)
(* arguments.                                                              *)
SecondOfTwoIdenticalCalls ==
  /\ call.pc = "loop" /\ call.op = "computeEigenvalue" /\ call.i = 0
  /\ hist.prev_entry.valid
  /\ hist.prev_entry.max_iters = call.max_iters
  /\ hist.prev_entry.res_type = call.res_type

(* C10: of two successive computeEigenvalue calls with the same arguments  *)
(* and nothing in between, the second enters its loop in the state the     *)
(* first entered it in: k_eff 1.0, scalar flux 1.0, boundary flux zero,    *)
(* the same dimensions and quadrature weights, the same bound of the       *)
(* exponential table.                                                      *)
C10_IdenticalCallsEnterLoopAlike ==
  SecondOfTwoIdenticalCalls =>
    /\ hist.loop_entry.state = hist.prev_entry.state
    /\ solver.k_eff = 1
    /\ solver.scalar_flux = NewArray(FSRGroupIndex(solver), 1)
    /\ \A x \in DOMAIN solver.boundary_flux.data :
         solver.boundary_flux.data[x] = 0


-----------------------------------------------------------------------------
(* The steps inside the solve calls: the three calls on problems without   *)
(* a Cmfd object, with one whose flux update is on and with one whose flux *)
(* update is off, and a normalization that rescales the unit flux.         *)

InitSteps == Constructed({"tgA", "tgB", "tgC"})

NextSteps ==
  \/ ComputeFlux(0 .. 2)
  \/ ComputeSource(0 .. 2, {1}, {"TOTAL_SOURCE"})
  \/ ComputeEigenvalue(0 .. 2, {"FISSION_SOURCE"})
  \/ IterateFlux
  \/ IterateSource
  \/ IterateEigenvalue(1 .. MaxNorm)
  \/ Exhaust

SpecSteps == InitSteps /\ [][NextSteps]_vars

(* The names of the calls noted, in order, and the notes of one name.      *)
Names(calls) == [j \in 1 .. Len(calls) |-> calls[j][1]]

Notes(calls, name) == {calls[j] : j \in {k \in 1 .. Len(calls) : calls[k][1] = name}}

(* The last step was iteration number n (from 1) of a solve call.          *)
IterationDone(n) ==
  /\ hist.op \in SolveOps
  /\ hist.outcome \in {"running", "converged", "exhausted"}
  /\ hist.sweeps = n
  /\ Len(hist.calls) > 0
  /\ hist.calls[Len(hist.calls)][1] = "convergenceTest"

(* Every entry of a flux field is v.                                       *)
Uniform(flux, v) == \A x \in DOMAIN flux : flux[x] = v

(* C11, as stated: in computeSource and computeEigenvalue every scalar     *)
(* flux entry is exactly 1.0 when the first transport sweep starts.        *)
C11_UnitFluxAtFirstSweep ==
  (IterationDone(1) /\ hist.op \in {"computeSource", "computeEigenvalue"}) =>
     \A c \in Notes(hist.calls, "transportSweep") : Uniform(c[2], 1)

(* C11, amended: in computeSource every scalar flux entry is exactly 1.0   *)
(* when the first sweep starts.  In computeEigenvalue it is 1.0 when the   *)
(* loop is entered, and the first iteration calls normalizeFluxes before   *)
(* its sweep, which starts from what the normalization made of the unit    *)
(* flux: a uniform positive flux, the one the sources were assembled from. *)
C11_UnitFluxAtLoopEntryNormalizedInEigenvalue ==
  /\ (call.pc = "loop" /\ call.i = 0
        /\ call.op \in {"computeSource", "computeEigenvalue"})
       => /\ Uniform(solver.scalar_flux.data, 1)
          /\ <<"flattenFSRFluxes", 1>> \in Notes(hist.calls, "flattenFSRFluxes")
  /\ (IterationDone(1) /\ hist.op = "computeSource")
       => /\ Names(hist.calls)[2] = "transportSweep"
          /\ Uniform(hist.calls[2][2], 1)
  /\ (IterationDone(1) /\ hist.op = "computeEigenvalue")
       => /\ Names(hist.calls)[1] = "normalizeFluxes"
          /\ Names(hist.calls)[3] = "transportSweep"
          /\ \E v \in 1 .. MaxNorm : Uniform(hist.calls[3][2], v)
          /\ hist.calls[3][2] = hist.calls[3][3]

(* C11 witness: the first sweep of a computeEigenvalue call started from a *)
(* flux of 2 in every entry.                                               *)
C11_Witness ==
  /\ IterationDone(1) /\ hist.op = "computeEigenvalue"
  /\ Uniform(hist.calls[3][2], 2)
  /\ DOMAIN hist.calls[3][2] # {}

(* The last step was an iteration of a call of op.                         *)
AfterIteration(op) ==
  /\ hist.op = op
  /\ Len(hist.calls) > 0
  /\ hist.calls[Len(hist.calls)][1] = "convergenceTest"

(* Diffusion acceleration is enabled on the problem the Solver is bound    *)
(* to: its geometry has a Cmfd object whose flux update is on.             *)
AccelerationEnabled ==
  /\ solver.geometry # NULL
  /\ Geometries[solver.geometry].cmfd = "cmfd"

SweepToStore ==
  <<"transportSweep", "addSourceToScalarFlux", "computeResidual",
    "storeFSRFluxes">>

(* C12: every iteration of computeEigenvalue makes these calls, each once  *)
(* and in this order: normalizeFluxes, computeFSRSources, transportSweep,  *)
(* addSourceToScalarFlux, computeResidual, storeFSRFluxes, then the k_eff  *)
(* update, which is the Cmfd object's computeKeff followed by its          *)
(* updateBoundaryFlux when acceleration is enabled and the Solver's own    *)
(* computeKeff otherwise; the convergence test comes after the update.     *)
C12_EigenvalueIterationOrder ==
  AfterIteration("computeEigenvalue") =>
    Names(hist.calls) =
      <<"normalizeFluxes", "computeFSRSources">> \o SweepToStore
        \o (IF AccelerationEnabled
              THEN <<"cmfd.computeKeff", "cmfd.updateBoundaryFlux">>
              ELSE <<"computeKeff">>)
        \o <<"convergenceTest">>

(* C12 witness: the second iteration of a computeEigenvalue call on the    *)
(* problem with a Cmfd object whose flux update is off ended with the      *)
(* Solver's own computeKeff.                                               *)
C12_Witness ==
  /\ AfterIteration("computeEigenvalue") /\ hist.sweeps = 2
  /\ solver.cmfd = "cmfdOff"
  /\ Notes(hist.calls, "computeKeff") # {}

(* C13: in every iteration of every solve call the transport sweep         *)
(* integrates reduced sources assembled from the scalar flux current at    *)
(* that sweep: the sources are reassembled after the previous iteration's  *)
(* flux update, so no sweep uses sources assembled from an older flux.     *)
C13_SourcesAssembledFromCurrentFlux ==
  \A op \in SolveOps :
    AfterIteration(op) =>
      \A c \in Notes(hist.calls, "transportSweep") : c[3] = c[2]

(* The positions of the notes of one name, and the names of the calls on   *)
(* the Cmfd object.                                                        *)
At(calls, name) == {j \in 1 .. Len(calls) : calls[j][1] = name}

CmfdNames == {"initializeCmfd", "cmfd.computeKeff", "cmfd.updateBoundaryFlux"}

(* The last step was the part of a call of op before its loop (followed,   *)
(* when no iteration was asked for, by the return).                        *)
AfterSetup(op) ==
  /\ hist.op = op
  /\ hist.outcome \in {"running", "exhausted"}
  /\ hist.sweeps = 0

(* C20: when the geometry has a Cmfd object with the flux update on,       *)
(* computeEigenvalue calls initializeCmfd exactly once per call, before    *)
(* the loop and after initializeFluxArrays and initializeFSRs of that call *)
(* allocated the arrays; iteration i (from 0) then calls the Cmfd          *)
(* object's computeKeff with argument i and its updateBoundaryFlux, once   *)
(* each and in that order, after computeResidual and before the            *)
(* iteration ends.  computeFlux and computeSource make no Cmfd call.       *)
C20_CmfdProtocol ==
  /\ AfterSetup("computeEigenvalue") =>
       IF AccelerationEnabled
         THEN /\ Cardinality(At(hist.calls, "initializeCmfd")) = 1
              /\ \A j \in At(hist.calls, "initializeCmfd") :
                   /\ hist.calls[j] = <<"initializeCmfd", TRUE, TRUE, TRUE>>
                   /\ \E a \in At(hist.calls, "initializeFluxArrays") : a < j
                   /\ \E a \in At(hist.calls, "initializeFSRs") : a < j
              /\ At(hist.calls, "cmfd.computeKeff") = {}
              /\ At(hist.calls, "cmfd.updateBoundaryFlux") = {}
         ELSE \A name \in CmfdNames : At(hist.calls, name) = {}
  /\ AfterIteration("computeEigenvalue") =>
       /\ At(hist.calls, "initializeCmfd") = {}
       /\ IF AccelerationEnabled
            THEN \E r, c, u, t \in 1 .. Len(hist.calls) :
                   /\ r < c /\ c < u /\ u < t
                   /\ At(hist.calls, "computeResidual") = {r}
                   /\ At(hist.calls, "cmfd.computeKeff") = {c}
                   /\ At(hist.calls, "cmfd.updateBoundaryFlux") = {u}
                   /\ At(hist.calls, "convergenceTest") = {t}
                   /\ hist.calls[c][2] = hist.sweeps - 1
                   /\ hist.calls[t][2] = hist.sweeps - 1
            ELSE \A name \in CmfdNames : At(hist.calls, name) = {}
  /\ hist.op \in {"computeFlux", "computeSource"} =>
       \A name \in CmfdNames : At(hist.calls, name) = {}

(* C20 witness: the second iteration of an accelerated computeEigenvalue   *)
(* call called the Cmfd object's computeKeff with argument 1.              *)
C20_Witness ==
  /\ AfterIteration("computeEigenvalue") /\ AccelerationEnabled
  /\ hist.sweeps = 2
  /\ <<"cmfd.computeKeff", 1>> \in Notes(hist.calls, "cmfd.computeKeff")

-----------------------------------------------------------------------------
(* The life of an engine: quadratures are attached, none, one or several   *)
(* times, track generators are attached, an eigenvalue is asked for, and   *)
(* the engine is destroyed.                                                *)

NextLife ==
  \/ SetPolarQuadrature({"userQuad", "userQuad2"})
  \/ SetTrackGenerator({"tgA", "tgB"})
  \/ ComputeEigenvalue({0}, {"FISSION_SOURCE"})
  \/ Exhaust
  \/ Destroy

SpecLife == Init /\ [][NextLife]_vars

UserQuads == PolarQuads \ {"TYdefault"}

(* C14: whatever setPolarQuadrature calls were made, the engine never      *)
(* destroys a quadrature the user supplied, and it destroys the default    *)
(* quadrature its constructor created exactly once: not before it is       *)
(* destroyed itself, and once when it is.                                  *)
C14_DefaultQuadratureDestroyedOnceUserNever ==
  /\ \A q \in UserQuads : env.deleted[q] = 0
  /\ env.deleted["TYdefault"] = IF call.pc = "destroyed" THEN 1 ELSE 0

-----------------------------------------------------------------------------
(* Claims about the fixed sources, checked under SpecConfig.               *)

C18_PolarTimesGroupsIsProduct ==
  solver.polar_times_groups = solver.num_groups * solver.num_polar


-----------------------------------------------------------------------------
(* Problems of changing dimensions: between solve calls the track          *)
(* generator is replaced by one over a geometry with other numbers of      *)
(* regions, groups and tracks, and the quadrature by one with another      *)
(* number of polar angles.                                                 *)

NextDims ==
  \/ SetTrackGenerator({"tgA", "tgB"})
  \/ SetPolarQuadrature({"userQuad"})
  \/ ComputeFlux({0, 1})
  \/ ComputeSource({1}, {1}, {"TOTAL_SOURCE"})
  \/ ComputeEigenvalue({1}, {"FISSION_SOURCE"})
  \/ IterateFlux
  \/ IterateSource
  \/ IterateEigenvalue({1})
  \/ Exhaust

SpecDims == Init /\ [][NextDims]_vars

(* A solve call is about to start its first transport sweep.               *)
AtFirstSweep ==
  /\ call.pc = "loop" /\ call.i = 0
  /\ loopCondition(call.i, call.max_iters)

(* array is allocated with exactly the entries of index.                   *)
AllocatedFor(array, index) == array.alloc /\ DOMAIN array.data = index

(* C19: at the first transport sweep of every solve call the scalar flux,  *)
(* old scalar flux, boundary flux, source, FSR volume, FSR material and    *)
(* polar weight arrays are allocated for the dimensions the Solver has at  *)
(* that call, also in computeFlux with only_fixed_source false after a     *)
(* previous solve.                                                         *)
C19_ArraysAllocatedForCurrentDimensions ==
  AtFirstSweep =>
    /\ AllocatedFor(solver.scalar_flux, FSRGroupIndex(solver))
    /\ AllocatedFor(solver.old_scalar_flux, FSRGroupIndex(solver))
    /\ AllocatedFor(solver.boundary_flux,
                    (0 .. solver.tot_num_tracks - 1) \X (0 .. 1)
                      \X (0 .. solver.num_groups * solver.num_polar - 1))
    /\ solver.reduced_sources.alloc
    /\ solver.reduced_sources.index = FSRGroupIndex(solver)
    /\ AllocatedFor(solver.FSR_volumes, 0 .. solver.num_FSRs - 1)
    /\ AllocatedFor(solver.FSR_materials, 0 .. solver.num_FSRs - 1)
    /\ AllocatedFor(solver.polar_weights,
                    (0 .. solver.num_azim - 1) \X (0 .. solver.num_polar - 1))


-----------------------------------------------------------------------------
(* The source of a region: fixed sources are stored, a computeSource or    *)
(* computeEigenvalue call leaves a flux and a k_eff, and the source of a   *)
(* region and group is asked for.                                          *)

InitSource == Constructed({"tgA", "tgB"})

NextSource ==
  \/ StoreFixedSourceByFSR
  \/ ComputeSource({0, 1}, 1 .. MaxKeff, {"TOTAL_SOURCE"})
  \/ ComputeEigenvalue({1}, {"FISSION_SOURCE"})
  \/ IterateSource
  \/ IterateEigenvalue({1})
  \/ Exhaust
  \/ GetFSRSource

SpecSource == InitSource /\ [][NextSource]_vars

(* The sum of the entries 0 .. n-1 of term.                                *)
RECURSIVE Sum(_, _)
Sum(term, n) == IF n = 0 THEN 0 ELSE term[n - 1] + Sum(term, n - 1)

(* The three terms of the source of region r and group g (from 1): the     *)
(* fission production, the in-scattering into g, and the fixed source.     *)
FissionProduction(s, r) ==
  Sum([e \in 0 .. s.num_groups - 1
         |-> s.scalar_flux.data[<<r, e>>]
               * MaterialData[s.FSR_materials.data[r]].nuSigmaF[e + 1]],
      s.num_groups)

InScatter(s, r, g) ==
  Sum([e \in 0 .. s.num_groups - 1
         |-> s.scalar_flux.data[<<r, e>>]
               * MaterialData[s.FSR_materials.data[r]].sigmaS[e + 1][g]],
      s.num_groups)

FixedSource(s, r, g) == s.fixed_sources.data[<<r, g - 1>>]

(* v is (fission / (k chi) + rest) / (4 pi), for k chi positive.           *)
IsSourceOf(v, fission, k_chi, rest) ==
  /\ v.unit = "ONE_OVER_FOUR_PI"
  /\ v.den # 0
  /\ v.num * k_chi = (fission + rest * k_chi) * v.den

(* C17: after a solve, for every valid region r and group g (from 1),      *)
(* getFSRSource(r, g) returns                                              *)
(*   ((fissionable(r) ? sum_e flux[r][e] nuSigmaF[e] / (k_eff chi[g]) : 0) *)
(*     + sum_e flux[r][e] scatterXS[e->g] + fixedSource[r][g]) / (4 pi)    *)
(* of the current flux, material of r, k_eff and fixed-source field, and   *)
(* the query changes nothing of the Solver.                                *)
C17_SourceOfRegionAndGroup ==
  [][ hist'.op = "getFSRSource" =>
        /\ solver' = solver /\ env' = env /\ call' = call
        /\ (hist'.outcome = "ok" /\ hist.solved) =>
             LET r == hist'.arg.fsr_id
                 g == hist'.arg.group
                 material == solver.FSR_materials.data[r]
                 rest == InScatter(solver, r, g) + FixedSource(solver, r, g)
             IN  IF isFissionable(material)
                   THEN IsSourceOf(hist'.value, FissionProduction(solver, r),
                                   solver.k_eff * MaterialData[material].chi[g],
                                   rest)
                   ELSE IsSourceOf(hist'.value, 0, 1, rest) ]_vars

(* C17 witness: the source of group 2 of a fuel region was returned, with  *)
(* a fission, a scattering and a fixed part that are all positive, and a   *)
(* k_eff chi other than 1.                                                 *)
C17_Witness ==
  /\ hist.op = "getFSRSource" /\ hist.outcome = "ok" /\ hist.solved
  /\ hist.arg.group = 2
  /\ isFissionable(solver.FSR_materials.data[hist.arg.fsr_id])
  /\ FissionProduction(solver, hist.arg.fsr_id) > 0
  /\ InScatter(solver, hist.arg.fsr_id, 2) > 0
  /\ FixedSource(solver, hist.arg.fsr_id, 2) > 0
  /\ solver.k_eff = 2
  /\ hist.value.den > 1


-----------------------------------------------------------------------------
(* Claims about the set-up of a solve call, checked under SpecSteps.       *)

-----------------------------------------------------------------------------
(* The exponential evaluator: its bound and strategy are set and the       *)
(* quadrature is replaced between solve calls of all three kinds.          *)

NextExp ==
  \/ SetMaxOpticalLength
  \/ UseExponentialInterpolation
  \/ UseExponentialIntrinsic
  \/ SetPolarQuadrature({"userQuad"})
  \/ ComputeFlux({0})
  \/ ComputeSource({0}, {1}, {"TOTAL_SOURCE"})
  \/ ComputeEigenvalue({0}, {"FISSION_SOURCE"})
  \/ Exhaust

SpecExp == InitSource /\ [][NextExp]_vars

(* The one position of the note of name in calls, 0 when there is not      *)
(* exactly one.                                                            *)
TheOne(calls, name) ==
  IF Cardinality(At(calls, name)) = 1
    THEN CHOOSE j \in At(calls, name) : TRUE
    ELSE 0

-----------------------------------------------------------------------------
(* The timing of a solve call, checked under Spec.                         *)

(* C23: every solve call that gets past its checks clears the "Total       *)
(* time" split and starts the timer before anything else; it stops the     *)
(* timer and records the "Total time" split exactly once, as its last      *)
(* statements, on the converged and on the exhausted return, and nowhere   *)
(* else.  The split of a call is recorded onto the split cleared at the    *)
(* entry of that call, so it is the time of the last completed call only.  *)
C23_TimerClearedStartedStoppedRecorded ==
  [][ /\ (call.pc = "idle" /\ call'.pc = "loop") =>
           /\ TheOne(hist'.calls, "clearSplit") = 1
           /\ TheOne(hist'.calls, "startTimer") = 2
           /\ At(hist'.calls, "stopTimer") = {}
           /\ At(hist'.calls, "recordSplit") = {}
           /\ solver'.timer.running /\ ~solver'.timer.split
      /\ (call.pc = "loop" /\ call'.pc = "loop") =>
           /\ hist'.exit = << >>
           /\ \A name \in {"clearSplit", "startTimer", "stopTimer",
                           "recordSplit"} : At(hist'.calls, name) = {}
           /\ solver'.timer = solver.timer
      /\ (call.pc = "loop" /\ call'.pc # "loop") =>
           /\ hist'.outcome \in {"converged", "exhausted"}
           /\ hist'.exit = << <<"stopTimer">>, <<"recordSplit", "Total time">> >>
           /\ solver.timer.running /\ ~solver.timer.split
           /\ ~solver'.timer.running /\ solver'.timer.split ]_vars

(* C23 witness: a computeEigenvalue call converged after three sweeps,     *)
(* stopped the timer and recorded its split.                               *)
C23_Witness ==
  /\ hist.op = "computeEigenvalue" /\ hist.outcome = "converged"
  /\ hist.sweeps = 3
  /\ Len(hist.exit) = 2
  /\ solver.timer.split /\ ~solver.timer.running


-----------------------------------------------------------------------------
(* Fixed sources by region, by cell and by material, on engines with and   *)
(* without a track generator.                                              *)

NextFixed ==
  \/ SetTrackGenerator({"tgA", "tgB"})
  \/ SetFixedSourceByFSR
  \/ SetFixedSourceByCell
  \/ SetFixedSourceByMaterial

SpecFixed == Init /\ [][NextFixed]_vars

FixedSourceSetters ==
  {"setFixedSourceByFSR", "setFixedSourceByCell", "setFixedSourceByMaterial"}

(* C24: each of setFixedSourceByFSR, setFixedSourceByCell and              *)
(* setFixedSourceByMaterial fails for every group outside                  *)
(* [1, numGroups], whatever the cell or material, also one that no region  *)
(* of the geometry is bound to.                                            *)
C24_EverySetterChecksTheGroup ==
  (hist.op \in FixedSourceSetters
     /\ hist.arg.group \notin 1 .. solver.num_groups)
    => hist.outcome = "OutOfRange"


(* The cells a FILL cell holds directly, and the cells reachable from a    *)
(* set of cells through at most n levels of FILL cells.                    *)
Children(cell) == {CellData[cell].cells[j] : j \in 1 .. Len(CellData[cell].cells)}

RECURSIVE ReachableFrom(_, _)
ReachableFrom(cells, n) ==
  IF n = 0 THEN cells
  ELSE ReachableFrom(cells \cup UNION {Children(c) : c \in cells}, n - 1)

(* The regions a fixed source given for a cell, or for a material, is for. *)
RegionsOfCell(s, cell) ==
  LET within == IF CellData[cell].type = "FILL"
                  THEN ReachableFrom(Children(cell), Cardinality(Cells))
                  ELSE {cell}
  IN  {r \in 0 .. s.num_FSRs - 1 : FSRCells[s.geometry][r + 1] \in within}

RegionsOfMaterial(s, material) ==
  {r \in 0 .. s.num_FSRs - 1 :
     Geometries[s.geometry].fsrMaterial[r + 1] = material}

(* The regions of the region-level sets noted.                             *)
RegionsSet(calls) == {calls[j][2] : j \in At(calls, "setFixedSourceByFSR")}

(* C25: setFixedSourceByMaterial makes the region-level set for exactly    *)
(* the regions in [0, numFSRs) bound to the material, and                  *)
(* setFixedSourceByCell for exactly the regions whose cell is the given    *)
(* cell or, for a FILL cell, a cell reachable from it through any depth of *)
(* nested FILL cells; no other region is set, every region-level set       *)
(* carries the group and the source of the call, and the recursion ends.   *)
C25_ScopeOfCellAndMaterialSetters ==
  (hist.op \in {"setFixedSourceByCell", "setFixedSourceByMaterial"}) =>
    LET scope == IF hist.op = "setFixedSourceByCell"
                   THEN RegionsOfCell(solver, hist.arg.obj)
                   ELSE RegionsOfMaterial(solver, hist.arg.obj)
    IN  /\ hist.outcome \in {"ok", "OutOfRange"}
        /\ \A j \in 1 .. Len(hist.calls) :
             /\ hist.calls[j][1] = "setFixedSourceByFSR"
             /\ hist.calls[j][2] \in scope
             /\ hist.calls[j][3] = hist.arg.group
             /\ hist.calls[j][4] = hist.arg.value
        /\ hist.outcome = "ok" => RegionsSet(hist.calls) = scope

(* C25 witness: a source given for the outermost FILL cell was set in both *)
(* regions of the geometry, one of them two levels of FILL cells down.     *)
C25_Witness ==
  /\ hist.op = "setFixedSourceByCell" /\ hist.outcome = "ok"
  /\ hist.arg.obj = "cRoot" /\ hist.arg.value = 1
  /\ solver.geometry = "gA"
  /\ RegionsSet(hist.calls) = {0, 1}


-----------------------------------------------------------------------------
(* The volume query, checked under SpecConfig.                             *)

(* C26: getFSRVolume fails for every fsr_id outside [0, numFSRs), the ids  *)
(* numFSRs and -1 included, and for every fsr_id while the volumes have    *)
(* not been computed; it reads the volume array only for fsr_id in         *)
(* [0, numFSRs).                                                           *)
C26_VolumeQueryStrictRange ==
  hist.op = "getFSRVolume" =>
    IF hist.arg.fsr_id \in 0 .. solver.num_FSRs - 1
      THEN IF solver.FSR_volumes.alloc
             THEN hist.outcome = "ok" /\ hist.reads
             ELSE hist.outcome = "NotReady" /\ ~hist.reads
      ELSE hist.outcome \in {"OutOfRange", "NotReady"} /\ ~hist.reads


-----------------------------------------------------------------------------
(* Attaching track generators of every kind, among them one without        *)
(* tracks and one whose geometry has no regions.                           *)

NextAttach ==
  \/ SetTrackGenerator(TrackGenerators)
  \/ SetPolarQuadrature({"userQuad", "userQuad2"})
  \/ SetFixedSourceByFSR
  \/ GetFSRVolume

SpecAttach == Init /\ [][NextAttach]_vars

(* C27: a setTrackGenerator call that fails, for whatever reason, leaves   *)
(* the track generator, the track array, the number of azimuthal angles,   *)
(* the number of tracks, the geometry and the dimensions of the Solver as  *)
(* they were; so also for a track generator with tracks over a geometry    *)
(* without regions, which setGeometry refuses.                             *)
C27_FailedAttachChangesNothing ==
  [][ (hist'.op = "setTrackGenerator" /\ hist'.outcome # "ok") =>
        /\ solver'.track_generator = solver.track_generator
        /\ solver'.tracks = solver.tracks
        /\ solver'.num_azim = solver.num_azim
        /\ solver'.tot_num_tracks = solver.tot_num_tracks
        /\ solver'.geometry = solver.geometry
        /\ solver'.num_FSRs = solver.num_FSRs
        /\ solver'.num_groups = solver.num_groups
        /\ solver'.num_materials = solver.num_materials
        /\ solver'.polar_times_groups = solver.polar_times_groups ]_vars


-----------------------------------------------------------------------------
(* Solver::initializePolarQuadrature statement by statement, with the      *)
(* iterations of its parallel loop handed out to the workers of the team   *)
(* one at a time and their statements interleaved in any order.            *)

Workers == 1 .. NumWorkers

(* A worker between iterations.                                            *)
Idle == <<-1, 0>>

PolarWeightIndex(s) == (0 .. s.num_azim - 1) \X (0 .. s.num_polar - 1)

(* The statements before the loop: the old array is deleted if there is    *)
(* one, and a new one of _num_azim*_num_polar entries is allocated; its    *)
(* entries hold no value yet.                                              *)
allocatePolarWeights(s) ==
  LET freed == IF s.polar_weights.alloc
                 THEN Called(s, <<"delete[]", "polar_weights">>)
                 ELSE s
      made == Called(freed, <<"new[]", "polar_weights",
                              s.num_azim * s.num_polar>>)
  IN  [made EXCEPT !.polar_times_groups = s.num_groups * s.num_polar,
                   !.polar_weights =
                      NewArray(PolarWeightIndex(s), "uninitialized")]

(* A slip of the work sharing: an iteration handed out stays in the pool.  *)
ompTake_kept(todo) == {<<i, todo>> : i \in todo}

(* #pragma omp parallel for: an iteration i of the pool is handed to one   *)
(* worker and leaves the pool.                                             *)
ompTake(todo) == {<<i, todo \ {i}>> : i \in todo}

(* _polar_weights(i,p) = azim_weights[i] * getMultiple(p) * FOUR_PI: the   *)
(* elements the statement reads, and the write.                            *)
readsOfPolarWeight(i, p) == {<<"azim_weights", i>>, <<"multiple", p>>}

writePolarWeight(s, i, p) ==
  [s EXCEPT !.polar_weights.data[<<i, p>>] =
               <<s.track_generator, i, s.polar_quad, p>>]

BeginPolarWeights ==
  /\ call.pc = "idle"
  /\ solver.track_generator # NULL
  /\ LET made == allocatePolarWeights(solver)
     IN  /\ solver' = [made EXCEPT !.calls = << >>]
         /\ hist' = [Did("initializePolarQuadrature", "running", NoArg, FALSE)
                       EXCEPT !.calls = made.calls]
  /\ call' = [pc |-> "omp", op |-> "initializePolarQuadrature",
              todo |-> 0 .. solver.num_azim - 1,
              at |-> [w \in Workers |-> Idle]]
  /\ UNCHANGED env

TakeIteration(w) ==
  /\ call.pc = "omp"
  /\ call.at[w] = Idle
  /\ \E t \in ompTake(call.todo) :
       call' = [call EXCEPT !.todo = t[2],
                            !.at[w] = IF 0 < solver.num_polar THEN <<t[1], 0>>
                                      ELSE Idle]
  /\ UNCHANGED <<solver, env, hist>>

WritePolarWeight(w) ==
  /\ call.pc = "omp"
  /\ call.at[w] # Idle
  /\ LET i == call.at[w][1]
         p == call.at[w][2]
     IN  /\ solver' = writePolarWeight(solver, i, p)
         /\ hist' = [hist EXCEPT !.calls =
                        Append(@, <<"write", w, <<i, p>>,
                                    readsOfPolarWeight(i, p)>>)]
         /\ call' = [call EXCEPT !.at[w] =
                        IF p + 1 < solver.num_polar THEN <<i, p + 1>>
                        ELSE Idle]
  /\ UNCHANGED env

(* The end of the parallel region: every iteration was handed out and      *)
(* every worker is through.                                                *)
EndPolarWeights ==
  /\ call.pc = "omp"
  /\ call.todo = {}
  /\ \A w \in Workers : call.at[w] = Idle
  /\ call' = NoCall
  /\ hist' = [hist EXCEPT !.outcome = "ok"]
  /\ UNCHANGED <<solver, env>>

NextWeights ==
  \/ SetTrackGenerator({"tgA", "tgB"})
  \/ SetPolarQuadrature({"userQuad"})
  \/ BeginPolarWeights
  \/ \E w \in Workers : TakeIteration(w)
  \/ \E w \in Workers : WritePolarWeight(w)
  \/ EndPolarWeights

SpecWeights == InitSource /\ [][NextWeights]_vars

(* C28: with the azimuthal indices handed to any number of workers and     *)
(* their statements interleaved in any order, every entry (i, p) of the    *)
(* weight array is written exactly once, by one worker, no worker reads an *)
(* entry another one writes, and at the end every entry for i in           *)
(* [0, numAzim) and p in [0, numPolar) is azimuthal weight i times         *)
(* multiple p times 4 pi, in an array newly allocated with numAzim *       *)
(* numPolar entries after the old one was deleted.                         *)
C28_PolarWeightsWrittenOnceWithoutHazard ==
  hist.op = "initializePolarQuadrature" =>
    LET c == hist.calls
        writes == At(c, "write")
        made == TheOne(c, "new[]")
    IN  /\ \A j, k \in writes : c[j][3] = c[k][3] => j = k
        /\ \A j, k \in writes :
             c[j][2] # c[k][2] => <<"polar_weights", c[k][3]>> \notin c[j][4]
        /\ made > 0
        /\ c[made][3] = solver.num_azim * solver.num_polar
        /\ \A d \in At(c, "delete[]") : d < made
        /\ \A j \in writes : made < j
        /\ Cardinality(At(c, "delete[]")) <= 1
        /\ hist.outcome = "ok" =>
             /\ {c[j][3] : j \in writes} = PolarWeightIndex(solver)
             /\ AllocatedFor(solver.polar_weights, PolarWeightIndex(solver))
             /\ Cardinality(PolarWeightIndex(solver))
                  = solver.num_azim * solver.num_polar
             /\ \A x \in PolarWeightIndex(solver) :
                  solver.polar_weights.data[x]
                    = <<solver.track_generator, x[1], solver.polar_quad, x[2]>>
             /\ solver.polar_weights
                  = initializePolarQuadrature(solver).polar_weights

(* C28 witness: the weights over two azimuthal angles were recomputed by   *)
(* two workers, one angle each, in place of an array that was deleted.     *)
C28_Witness ==
  /\ hist.op = "initializePolarQuadrature" /\ hist.outcome = "ok"
  /\ solver.num_azim = 2
  /\ At(hist.calls, "delete[]") # {}
  /\ \E j, k \in At(hist.calls, "write") :
       /\ hist.calls[j][2] # hist.calls[k][2]
       /\ j < k /\ hist.calls[j][3][1] > hist.calls[k][3][1]


-----------------------------------------------------------------------------
(* The iteration count a solve call leaves, checked under Spec.            *)

getNumIterations(s) == s.num_iterations

(* C29: after a completed solve call with argument maxIters, on the        *)
(* converged and on the exhausted return, getNumIterations gives the       *)
(* number of transport sweeps the call performed, a number in              *)
(* [0, maxIters], also for maxIters zero or negative.                      *)
C29_IterationCountIsSweepsPerformed ==
  (hist.op \in SolveOps /\ hist.outcome \in {"converged", "exhausted"}) =>
    /\ getNumIterations(solver) = hist.sweeps
    /\ getNumIterations(solver) \in 0 .. call.max_iters

=============================================================================
